---- MODULE Spec2Model ----
(***************************************************************************)
(* Fetchy: the install / update / uninstall / repair engine               *)
(* (src/src/main.rs, src/src/install/*.rs, src/src/resolver.rs,           *)
(* src/src/db/mod.rs) as a state machine.                                 *)
(*                                                                         *)
(* Two specifications:                                                     *)
(*   Spec         the commands run one after the other against the        *)
(*                on-disk database, the binaries directory and the        *)
(*                temporary downloads directory;                          *)
(*   SpecResolve  resolve_pkgs_by_name_with_deps, one queue item per      *)
(*                step, over every small set of repositories.             *)
(***************************************************************************)
EXTENDS Integers, Sequences, FiniteSets, TLC

\* ------------------------------------------------------------------ bounds

\* longest list of names given to one command
MaxNames == 2
\* highest version a package's upstream publishes
MaxVersion == 2
\* longest depends_on list of a package in the resolver's repositories
MaxDeps == 1
\* most dot-separated parts of a package name in the temporary directory runs
MaxTokens == 2
\* most entries of an archive given to extract_archive
MaxEntries == 3
\* most `files` entries (patterns) given to extract_archive
MaxPatterns == 2
\* most assets of a GitHub release
MaxAssets == 3
\* most packages whose informations one planning step fetches
MaxFetch == 3
\* most chunks of a response body
MaxChunks == 2
\* most bytes of a chunk
MaxChunkLen == 2

\* ----------------------------------------------------------------- helpers

Range(s) == {s[i] : i \in DOMAIN s}

\* sequences over S of length lo..hi
SeqsOf(S, lo, hi) == UNION {[1..n -> S] : n \in lo..hi}

\* the first index of s satisfying Test, 0 if none
FirstIdx(s, Test(_)) ==
    IF \E i \in DOMAIN s : Test(s[i])
    THEN CHOOSE i \in DOMAIN s : Test(s[i]) /\ \A j \in 1..(i - 1) : ~Test(s[j])
    ELSE 0

\* ------------------------------------------------------ repositories (ast)

\* repos/ast.rs PackageManifest: the source is kept as the binaries it yields
Manifest(n, deps, bins) == [name |-> n, depends_on |-> deps, bins |-> bins]

\* the string order of the names (BTreeMap iteration order)
NameOrder == <<"A", "B", "C", "D", "E", "Z", "r1", "r2", "r3">>

\* the names of S as a sequence in key order
Sorted(S, order) == SelectSeq(order, LAMBDA n : n \in S)

NoPkg == [manifest |-> Manifest("", <<>>, <<>>), repo |-> "", is_dep |-> FALSE]

\* ---------------------------------------------------------------- resolver

\* resolver.rs resolve_pkg_by_name: the repositories holding the name
Candidates(name, repos) == {r \in DOMAIN repos : name \in DOMAIN repos[r]}

\* a lookup that takes a repository holding the name when several do
resolve_pkg_by_name_any(name, repos) ==
    LET c == Candidates(name, repos) IN
    IF c = {} THEN [err |-> "PackageNotFound", pkg |-> NoPkg]
    ELSE LET r == CHOOSE r \in c : TRUE IN
         [err |-> "",
          pkg |-> [manifest |-> repos[r][name], repo |-> r, is_dep |-> FALSE]]

resolve_pkg_by_name(name, repos) ==
    LET c == Candidates(name, repos) IN
    IF c = {} THEN [err |-> "PackageNotFound", pkg |-> NoPkg]
    ELSE IF Cardinality(c) > 1 THEN [err |-> "AmbiguousPackage", pkg |-> NoPkg]
    ELSE LET r == CHOOSE r \in c : TRUE IN
         [err |-> "",
          pkg |-> [manifest |-> repos[r][name], repo |-> r, is_dep |-> FALSE]]

\* resolver.rs resolve_pkgs_by_name: collect::<Result<Vec<_>, _>> stops at
\* the first error
resolve_pkgs_by_name(names, repos) ==
    LET res == [i \in DOMAIN names |-> resolve_pkg_by_name(names[i], repos)]
        bad == FirstIdx(res, LAMBDA x : x.err # "")
    IN IF bad # 0 THEN [err |-> res[bad].err, pkgs |-> <<>>]
       ELSE [err |-> "", pkgs |-> [i \in DOMAIN names |-> res[i].pkg]]

\* the error of queueing one dependency of a package of `repo`, "" if none
DepError(dep_name, repo, pkgs, repos) ==
    LET i == FirstIdx(pkgs, LAMBDA p : p.manifest.name = dep_name) IN
    IF i # 0 /\ pkgs[i].repo # repo THEN "RepositoryConflict"
    ELSE IF dep_name \notin DOMAIN repos[repo] THEN "MissingDependency"
    ELSE ""

\* a resolver that queues no dependency
QueuedDepsNone(resolved, repos) == <<>>

\* a resolver that does not follow the dependencies of a dependency
QueuedDepsShallow(resolved, repos) ==
    IF resolved.is_dep THEN <<>>
    ELSE [i \in DOMAIN resolved.manifest.depends_on |->
            [manifest |-> repos[resolved.repo][resolved.manifest.depends_on[i]],
             repo |-> resolved.repo, is_dep |-> TRUE]]

\* the dependencies of a newly handled package, as queue items
QueuedDeps(resolved, repos) ==
    [i \in DOMAIN resolved.manifest.depends_on |->
        [manifest |-> repos[resolved.repo][resolved.manifest.depends_on[i]],
         repo |-> resolved.repo, is_dep |-> TRUE]]

\* an iteration that skips a handled name without looking at its repository
ResolveIterAnyRepo(st, pkgs, repos) ==
    LET resolved == Head(st.queue)
        name == resolved.manifest.name
        rest == Tail(st.queue)
        deps == resolved.manifest.depends_on
        bad == FirstIdx(deps, LAMBDA d : DepError(d, resolved.repo, pkgs, repos) # "")
    IN IF name \in DOMAIN st.handled
       THEN [st EXCEPT !.queue = rest]
       ELSE IF bad # 0
            THEN [queue |-> rest,
                  handled |-> (name :> resolved) @@ st.handled,
                  err |-> DepError(deps[bad], resolved.repo, pkgs, repos)]
            ELSE [queue |-> rest \o QueuedDeps(resolved, repos),
                  handled |-> (name :> resolved) @@ st.handled,
                  err |-> ""]

\* an iteration that does not look at `handled` before it queues the
\* dependencies
ResolveIterUnhandled(st, pkgs, repos) ==
    LET resolved == Head(st.queue)
        name == resolved.manifest.name
        rest == Tail(st.queue)
        deps == resolved.manifest.depends_on
        bad == FirstIdx(deps, LAMBDA d : DepError(d, resolved.repo, pkgs, repos) # "")
    IN IF bad # 0
       THEN [queue |-> rest,
             handled |-> (name :> resolved) @@ st.handled,
             err |-> DepError(deps[bad], resolved.repo, pkgs, repos)]
       ELSE [queue |-> rest \o QueuedDeps(resolved, repos),
             handled |-> (name :> resolved) @@ st.handled,
             err |-> ""]

\* one iteration of the while loop of resolve_pkgs_with_deps on the state
\* st = [queue, handled, err], with a non-empty queue and no error
ResolveIter(st, pkgs, repos) ==
    LET resolved == Head(st.queue)
        name == resolved.manifest.name
        rest == Tail(st.queue)
        deps == resolved.manifest.depends_on
        bad == FirstIdx(deps, LAMBDA d : DepError(d, resolved.repo, pkgs, repos) # "")
    IN IF name \in DOMAIN st.handled
       THEN IF st.handled[name].repo # resolved.repo
            THEN [st EXCEPT !.queue = rest, !.err = "RepositoryConflict"]
            ELSE [st EXCEPT !.queue = rest]
       ELSE IF bad # 0
            THEN [queue |-> rest,
                  handled |-> (name :> resolved) @@ st.handled,
                  err |-> DepError(deps[bad], resolved.repo, pkgs, repos)]
            ELSE [queue |-> rest \o QueuedDeps(resolved, repos),
                  handled |-> (name :> resolved) @@ st.handled,
                  err |-> ""]

RECURSIVE ResolveLoop(_, _, _)
ResolveLoop(st, pkgs, repos) ==
    IF st.err # "" \/ st.queue = <<>> THEN st
    ELSE ResolveLoop(ResolveIter(st, pkgs, repos), pkgs, repos)

\* handled.into_values().collect(): the values in key order
HandledValues(handled) ==
    LET keys == Sorted(DOMAIN handled, NameOrder) IN
    [i \in DOMAIN keys |-> handled[keys[i]]]

EmptyHandled == [n \in {} |-> NoPkg]

resolve_pkgs_with_deps(pkgs, repos) ==
    LET st == ResolveLoop([queue |-> pkgs, handled |-> EmptyHandled, err |-> ""],
                          pkgs, repos)
    IN IF st.err # "" THEN [err |-> st.err, pkgs |-> <<>>]
       ELSE [err |-> "", pkgs |-> HandledValues(st.handled)]

resolve_pkgs_by_name_with_deps(names, repos) ==
    LET req == resolve_pkgs_by_name(names, repos) IN
    IF req.err # "" THEN req ELSE resolve_pkgs_with_deps(req.pkgs, repos)

\* ------------------------------------------------- the engine's universe

\* the registered repositories of the engine runs (db.repositories): one
\* repository; A depends on B, D exposes the binary "a" too and a second
\* one, Z is an archive package whose `files` list is empty
EngineRepos ==
    "r1" :> ( "A" :> Manifest("A", <<"B">>, <<"a">>)
           @@ "B" :> Manifest("B", <<>>, <<"b">>)
           @@ "D" :> Manifest("D", <<>>, <<"a", "d">>)
           @@ "Z" :> Manifest("Z", <<>>, <<>>) )

EnginePkgs == {"A", "B", "D", "Z"}

\* the packages of a GitHub source, whose version is the latest release's;
\* the others are Direct sources with a hardcoded version
Upstreams == {"A"}

Files == {"a", "b", "d", "e"}

\* the content of a file of the binaries directory: the package and the
\* version of the asset it was copied from, and whether it is executable
NoFile == [pkg |-> "", version |-> 0, exec |-> FALSE]

\* a downloaded or extracted file (File::create: not executable)
FileOf(p, v) == [pkg |-> p, version |-> v, exec |-> FALSE]

VARIABLES
    repositories, \* the `repositories` map of the database file on disk
    db,        \* the `installed` map of the database file on disk
    bin_dir,   \* the binaries directory: file name -> content, or NoFile
    tmp_dir,   \* whether the temporary directory of the running command exists
    remote,    \* the version each package's upstream publishes now
    pc,        \* where the running command is, "idle" between commands
    cmd,       \* the running command: its arguments, locals and effects
    prev,      \* what the last finished command did
    r_repos,   \* resolver run: the repositories
    r_names,   \* resolver run: the requested names
    r_pkgs,    \* resolver run: the requested packages (resolve_pkgs_by_name)
    r_st,      \* resolver run: queue, handled, err
    r_pc,      \* resolver run: "start", "loop", "done" or "failed"
    db_data,   \* store run: the AppData in memory (Db.db_data)
    db_file,   \* store run: the bytes of the database file, or NoDbFile
    st_buf,    \* store run: the serialised data that Db::update writes
    st_pre,    \* store run: the AppData before the running Db::update
    st_pc,     \* store run: where the process is
    p_pkgs,    \* planner run: the resolved packages
    p_policy,  \* planner run: the InstalledPackagesHandling
    p_installed, \* planner run: db.installed
    p_remote,  \* planner run: the version each fetch_info returns
    p_phases,  \* planner run: the result of compute_install_phases
    p_pc,      \* planner run: "input" or "planned"
    dl_jobs,   \* downloader run: the packages of the call
    dl_task,   \* downloader run: where the task of each package is
    dl_closure, \* downloader run: the spawn_blocking closure of each task
    dl_finalized, \* downloader run: how often finalize was called, by package
    dl_call,   \* downloader run: the call: where it is, results, error
    u_in,      \* run of one function: its input
    u_out,     \* run of one function: what it has done or returned so far
    u_pc       \* run of one function: "none", "input", "running" or "returned"

engine_vars == <<repositories, db, bin_dir, tmp_dir, remote, pc, cmd, prev>>

resolver_vars == <<r_repos, r_names, r_pkgs, r_st, r_pc>>

store_vars == <<db_data, db_file, st_buf, st_pre, st_pc>>

plan_vars == <<p_pkgs, p_policy, p_installed, p_remote, p_phases, p_pc>>

dl_vars == <<dl_jobs, dl_task, dl_closure, dl_finalized, dl_call>>

unit_vars == <<u_in, u_out, u_pc>>

vars == <<repositories, db, bin_dir, tmp_dir, remote, pc, cmd, prev,
          r_repos, r_names, r_pkgs, r_st, r_pc,
          db_data, db_file, st_buf, st_pre, st_pc,
          p_pkgs, p_policy, p_installed, p_remote, p_phases, p_pc,
          dl_jobs, dl_task, dl_closure, dl_finalized, dl_call,
          u_in, u_out, u_pc>>

EmptyDb == [n \in {} |-> 0]

\* db/data.rs SourcedRepository: where a repository was read from and what
\* it held then (its packages by name)
SourcedRepository(location, content) ==
    [location |-> location, content |-> content]

\* main.rs:68-90: `repos`, the registered repositories the commands resolve
\* packages in
Registered == [r \in DOMAIN repositories |-> repositories[r].content]

\* db/data.rs InstalledPackage (the install date is left out)
InstalledPackage(manifest, repo_name, version, binaries, installed_as_dep) ==
    [manifest |-> manifest, repo_name |-> repo_name, version |-> version,
     binaries |-> binaries, installed_as_dep |-> installed_as_dep]

\* Path::is_file on bin_dir.join(bin)
IsFile(dir, bin) == bin \in DOMAIN dir /\ dir[bin] # NoFile

\* ----------------------------------------------------------------- planner

\* main.rs:91-112: the flags of `install` as an InstalledPackagesHandling
InstallPolicy(force, check_updates) ==
    IF force THEN "Reinstall"
    ELSE IF check_updates THEN "CheckUpdates"
    ELSE "Ignore"

\* main.rs:114-138: the flag of `update` as an InstalledPackagesHandling
UpdatePolicy(force) == IF force THEN "Reinstall" ELSE "Update"

NoPhases ==
    [err |-> "", fetched |-> <<>>,
     already_installed |-> <<>>, already_installed_deps |-> <<>>,
     no_update_needed |-> <<>>, update_available |-> <<>>,
     missing_pkgs |-> <<>>, missing_deps |-> <<>>,
     needs_updating |-> <<>>, reinstall |-> <<>>]

\* the packages that are not fetched left out of the phases
UnfetchedNone(pkgs) == <<>>

\* every fetched package taken for a dependency
PlannedAsDep(pkg, version) ==
    [pkg |-> [pkg EXCEPT !.is_dep = TRUE], version |-> version]

\* a resolved package with the version of its fetched asset infos (0: none)
Planned(pkg, version) == [pkg |-> pkg, version |-> version]

Unfetched(pkgs) == [i \in DOMAIN pkgs |-> Planned(pkgs[i], 0)]

\* install/phases.rs compute_install_phases; fetch_ok: whether the
\* fetch_info calls succeed, rem: the versions they return
compute_install_phases(pkgs, policy, installed, fetch_ok, rem) ==
    LET IsInst(p) == p.manifest.name \in DOMAIN installed
        migration ==
            \E i \in DOMAIN pkgs :
                /\ IsInst(pkgs[i])
                /\ installed[pkgs[i].manifest.name].repo_name # pkgs[i].repo
        fast ==
            /\ policy = "Ignore"
            /\ \A i \in DOMAIN pkgs : ~pkgs[i].is_dep => IsInst(pkgs[i])
        inst == IF policy = "Ignore" THEN SelectSeq(pkgs, IsInst) ELSE <<>>
        missing ==
            IF policy = "Ignore"
            THEN SelectSeq(pkgs, LAMBDA p : ~IsInst(p))
            ELSE pkgs
        fetched == [i \in DOMAIN missing |->
                        Planned(missing[i], rem[missing[i].manifest.name])]
        Same(f) == f.version = installed[f.pkg.manifest.name].version
        Inst(f) == IsInst(f.pkg)
    IN IF migration THEN [NoPhases EXCEPT !.err = "RepositoryMigration"]
       ELSE IF fast
       THEN [NoPhases EXCEPT
                !.already_installed =
                    Unfetched(SelectSeq(pkgs, LAMBDA p : ~p.is_dep)),
                !.already_installed_deps =
                    Unfetched(SelectSeq(pkgs, LAMBDA p : p.is_dep))]
       ELSE IF missing = <<>>
       THEN [NoPhases EXCEPT
                !.already_installed =
                    Unfetched(SelectSeq(inst, LAMBDA p : ~p.is_dep)),
                !.already_installed_deps =
                    Unfetched(SelectSeq(inst, LAMBDA p : p.is_dep))]
       ELSE IF ~fetch_ok
       THEN [NoPhases EXCEPT
                !.err = "NetworkFailure",
                !.fetched = [i \in DOMAIN missing |-> missing[i].manifest.name]]
       ELSE [err |-> "",
             fetched |-> [i \in DOMAIN missing |-> missing[i].manifest.name],
             already_installed |->
                 Unfetched(SelectSeq(inst, LAMBDA p : ~p.is_dep)),
             already_installed_deps |->
                 Unfetched(SelectSeq(inst, LAMBDA p : p.is_dep))
                 \o SelectSeq(fetched, LAMBDA f :
                        Inst(f) /\ policy = "Reinstall"
                        /\ f.pkg.is_dep /\ Same(f)),
             no_update_needed |->
                 SelectSeq(fetched, LAMBDA f :
                     Inst(f) /\ policy \in {"CheckUpdates", "Update"} /\ Same(f)),
             update_available |->
                 SelectSeq(fetched, LAMBDA f :
                     Inst(f) /\ policy = "CheckUpdates" /\ ~Same(f)),
             missing_pkgs |->
                 SelectSeq(fetched, LAMBDA f : ~Inst(f) /\ ~f.pkg.is_dep),
             missing_deps |->
                 SelectSeq(fetched, LAMBDA f : ~Inst(f) /\ f.pkg.is_dep),
             needs_updating |->
                 SelectSeq(fetched, LAMBDA f :
                     Inst(f) /\ policy = "Update" /\ ~Same(f)),
             reinstall |->
                 SelectSeq(fetched, LAMBDA f :
                     Inst(f) /\ policy = "Reinstall"
                     /\ ~(f.pkg.is_dep /\ Same(f)))]

\* a chain that takes the up-to-date packages too
ToInstallAll(phases) ==
    phases.missing_pkgs \o phases.missing_deps
        \o phases.needs_updating \o phases.reinstall
        \o phases.no_update_needed

\* install/installer.rs:55-65: the chain of the four to-install buckets
ToInstall(phases) ==
    phases.missing_pkgs \o phases.missing_deps
        \o phases.needs_updating \o phases.reinstall

\* ------------------------------------------------- commands: bookkeeping

\* the disk as a command found it, kept by the observer of a run
NoSnap ==
    [name |-> "", policy |-> "",
     pre_db |-> EmptyDb, pre_bin |-> [f \in Files |-> NoFile]]

\* the running command.  kind, policy, deps: its arguments; single: the
\* name it was given when it was given exactly one; pre_db, pre_bin: the
\* disk when it started; the rest: its locals and what it has done so far
NoCmd ==
    [kind |-> "none", policy |-> "", deps |-> FALSE, single |-> "",
     pre_db |-> EmptyDb, pre_bin |-> [f \in Files |-> NoFile],
     chain |-> NoSnap,      \* the disk before the command just before
     resolved |-> <<>>,     \* repair: broken
     asked |-> FALSE,       \* a confirmation prompt was shown
     fetched |-> 0,         \* the number of fetch_info calls
     to_install |-> <<>>,   \* install_pkgs: to_install
     tmp_made |-> FALSE,    \* the temporary directory was created
     extracted |-> <<>>,    \* install_pkgs: extracted
     flattened |-> <<>>,    \* install_pkgs: flattened_bins
     copied |-> 0,          \* binaries copied so far
     removal |-> <<>>,      \* uninstall: the names of to_uninstall
     bin_paths |-> <<>>,    \* uninstall: bin_paths
     deleted |-> 0,         \* binaries deleted so far
     writes |-> 0]          \* Db::update calls that wrote the file

NewCmd(kind, names, policy, deps) ==
    [NoCmd EXCEPT !.kind = kind, !.policy = policy, !.deps = deps,
                  !.single = IF Len(names) = 1 THEN names[1] ELSE "",
                  !.pre_db = db, !.pre_bin = bin_dir]

\* what is kept of the command that just finished: result is "ok" (exit
\* code 0), "err" (an error was returned: exit code 1) or "panic".  snap is
\* kept until the next command: the name, the policy and the disk before
\* it when it is a successful install of exactly one name, of a package
\* that was not installed
Summary(c, result, err, declined) ==
    [kind |-> c.kind, policy |-> c.policy, deps |-> c.deps,
     result |-> result, err |-> err,
     asked |-> c.asked, declined |-> declined,
     fetched |-> c.fetched,
     planned |-> {c.to_install[i].pkg.manifest.name : i \in DOMAIN c.to_install},
     tmp_made |-> c.tmp_made,
     copied |-> c.copied,
     removal |-> Range(c.removal),
     deleted |-> c.deleted,
     writes |-> c.writes,
     snap |-> IF /\ c.kind = "install" /\ result = "ok"
                 /\ c.single # "" /\ c.single \notin DOMAIN c.pre_db
              THEN [name |-> c.single, policy |-> c.policy,
                    pre_db |-> c.pre_db, pre_bin |-> c.pre_bin]
              ELSE NoSnap,
     chain |-> c.chain]

NoPrev == Summary(NoCmd, "", "", FALSE)

\* main.rs:58-65: the command returns
Finish(c, result, err) ==
    /\ pc' = "done"
    /\ cmd' = NoCmd
    /\ prev' = Summary(c, result, err, FALSE)
    /\ UNCHANGED <<repositories, resolver_vars, store_vars, plan_vars, dl_vars, unit_vars>>

\* the command returns after the user answered "Abort"
FinishDeclined(c, result, err) ==
    /\ pc' = "done"
    /\ cmd' = NoCmd
    /\ prev' = Summary(c, result, err, TRUE)
    /\ UNCHANGED <<repositories, resolver_vars, store_vars, plan_vars, dl_vars, unit_vars>>

\* main.rs:51-66: the process exits with the command's exit code
Exit ==
    /\ pc = "done"
    /\ pc' = "idle"
    /\ prev' = [NoPrev EXCEPT !.snap = prev.snap]
    /\ tmp_dir' = FALSE
    /\ UNCHANGED <<db, bin_dir, remote, cmd>>
    /\ UNCHANGED <<repositories, resolver_vars, store_vars, plan_vars, dl_vars, unit_vars>>

\* the command goes on at `at` (no resolver run is touched by a command)
Goto(c, at) ==
    /\ pc' = at
    /\ cmd' = c
    /\ prev' = NoPrev
    /\ UNCHANGED <<repositories, resolver_vars, store_vars, plan_vars, dl_vars, unit_vars>>

\* --------------------------------------------------- install_pkgs: plan

\* a planner that always gets to its fetch_info calls
ReachesFetchAlways(pkgs, policy, installed) == TRUE

\* install/phases.rs:47-111: whether compute_install_phases gets to its
\* fetch_info calls (no migration, no fast path, something to check)
ReachesFetch(pkgs, policy, installed) ==
    compute_install_phases(pkgs, policy, installed, FALSE,
                           [p \in EnginePkgs |-> 0]).err = "NetworkFailure"

\* install/installer.rs:44-91, with the phases computed: the early returns
\* and the confirmation prompt
AfterPhases(c, phases) ==
    LET c1 == [c EXCEPT !.resolved = <<>>, !.fetched = Len(phases.fetched),
                        !.to_install = ToInstall(phases)]
    IN IF phases.err # "" THEN Finish(c1, "err", phases.err)
       ELSE IF c1.to_install = <<>> THEN Finish(c1, "ok", "")
       ELSE IF \E i \in DOMAIN c1.to_install : c1.to_install[i].pkg.is_dep
       THEN Goto([c1 EXCEPT !.asked = TRUE], "confirm")
       ELSE Goto(c1, "download")

\* install/installer.rs:42, entered with the resolved packages: the part of
\* compute_install_phases before its fetch_info calls
EnterInstallPkgs(c, pkgs) ==
    IF ReachesFetch(pkgs, c.policy, db)
    THEN Goto([c EXCEPT !.resolved = pkgs], "fetching")
    ELSE AfterPhases(c, compute_install_phases(pkgs, c.policy, db, TRUE, remote))

\* install/phases.rs:122-181 with install/fetch_infos.rs: every fetch_info
\* task has ended (ok: all of them successfully); the classification
FetchInfos(ok) ==
    /\ pc = "fetching"
    /\ AfterPhases(cmd, compute_install_phases(cmd.resolved, cmd.policy, db, ok, remote))
    /\ UNCHANGED <<db, bin_dir, tmp_dir, remote>>

\* main.rs:91-112 Action::Install
Install(names, force, check_updates) ==
    /\ pc = "idle"
    /\ LET c == NewCmd("install", names, InstallPolicy(force, check_updates), FALSE)
           res == resolve_pkgs_by_name_with_deps(names, Registered)
       IN IF res.err # "" THEN Finish(c, "err", res.err)
          ELSE EnterInstallPkgs(c, res.pkgs)
    /\ UNCHANGED <<db, bin_dir, tmp_dir, remote>>

\* resolver.rs resolve_installed_pkg
resolve_installed_pkg(installed, repos) ==
    IF installed.repo_name \notin DOMAIN repos
    THEN [err |-> "OrphanedInstall", pkg |-> NoPkg]
    ELSE [err |-> "",
          pkg |-> [manifest |-> installed.manifest, repo |-> installed.repo_name,
                   is_dep |-> installed.installed_as_dep]]

\* resolver.rs resolve_installed_pkgs: every installed package, in key order
resolve_installed_pkgs(installed, repos) ==
    LET keys == Sorted(DOMAIN installed, NameOrder)
        res == [i \in DOMAIN keys |-> resolve_installed_pkg(installed[keys[i]], repos)]
        bad == FirstIdx(res, LAMBDA x : x.err # "")
    IN IF bad # 0 THEN [err |-> res[bad].err, pkgs |-> <<>>]
       ELSE [err |-> "", pkgs |-> [i \in DOMAIN keys |-> res[i].pkg]]

\* resolver.rs resolve_installed_pkg_by_name
resolve_installed_pkg_by_name(name, installed, repos) ==
    IF name \notin DOMAIN installed
    THEN [err |-> "NotInstalled", pkg |-> NoPkg]
    ELSE resolve_installed_pkg(installed[name], repos)

\* resolver.rs resolve_installed_pkgs_by_name
resolve_installed_pkgs_by_name(names, installed, repos) ==
    LET res == [i \in DOMAIN names |->
                    resolve_installed_pkg_by_name(names[i], installed, repos)]
        bad == FirstIdx(res, LAMBDA x : x.err # "")
    IN IF bad # 0 THEN [err |-> res[bad].err, pkgs |-> <<>>]
       ELSE [err |-> "", pkgs |-> [i \in DOMAIN names |-> res[i].pkg]]

\* resolver.rs refresh_pkg, over a list (collect::<Result<Vec<_>, _>>)
refresh_pkgs(pkgs, repos) ==
    LET Missing(p) == p.manifest.name \notin DOMAIN repos[p.repo] IN
    IF FirstIdx(pkgs, Missing) # 0 THEN [err |-> "PackageNotFound", pkgs |-> <<>>]
    ELSE [err |-> "",
          pkgs |-> [i \in DOMAIN pkgs |->
                       [pkgs[i] EXCEPT
                           !.manifest = repos[pkgs[i].repo][pkgs[i].manifest.name]]]]

\* main.rs:114-138 Action::Update
Update(names, force) ==
    /\ pc = "idle"
    /\ LET c == NewCmd("update", names, UpdatePolicy(force), FALSE)
           res == IF names # <<>>
                  THEN resolve_installed_pkgs_by_name(names, db, Registered)
                  ELSE resolve_installed_pkgs(db, Registered)
           fresh == refresh_pkgs(res.pkgs, Registered)
       IN IF res.err # "" THEN Finish(c, "err", res.err)
          ELSE IF fresh.err # "" THEN Finish(c, "err", fresh.err)
          ELSE EnterInstallPkgs(c, fresh.pkgs)
    /\ UNCHANGED <<db, bin_dir, tmp_dir, remote>>

\* install/installer.rs:88-90: the answer to the prompt of install_pkgs
ConfirmInstall(answer) ==
    /\ pc = "confirm"
    /\ IF answer THEN Goto(cmd, "download")
       ELSE FinishDeclined(cmd, "err", "UserAbort")
    /\ UNCHANGED <<db, bin_dir, tmp_dir, remote>>

\* --------------------------------------- install_pkgs: download, extract

\* install/downloader.rs:30: TempDir::new, before any task is spawned
StartDownload(ok) ==
    /\ pc = "download"
    /\ IF ok
       THEN /\ tmp_dir' = TRUE
            /\ Goto([cmd EXCEPT !.tmp_made = TRUE], "downloading")
       ELSE /\ tmp_dir' = tmp_dir
            /\ Finish(cmd, "err", "FilesystemError")
    /\ UNCHANGED <<db, bin_dir, remote>>

\* install/extract/mod.rs extract_asset: one binary per `copy_as` of the
\* asset type, each holding the bytes of the downloaded asset
ExtractedBinaries(manifest, version) ==
    [i \in DOMAIN manifest.bins |->
        [name |-> manifest.bins[i], content |-> FileOf(manifest.name, version)]]

\* install/installer.rs:265-296 extract_downloaded_asset: ExtractedPackage
ExtractedPackage(planned) ==
    [manifest |-> planned.pkg.manifest,
     repo_name |-> planned.pkg.repo,
     is_dep |-> planned.pkg.is_dep,
     version |-> planned.version,
     binaries |-> ExtractedBinaries(planned.pkg.manifest, planned.version)]

\* install/downloader.rs:41-98 with install/installer.rs:110-118: every
\* asset is downloaded and extracted into the temporary directory; on the
\* first failing task the error is returned and the directory dropped.
\* The drop (remove_dir_all, errors ignored) may leave the directory when
\* the extraction of another package is still writing into it (DlReturn)
FinishDownload(failure) ==
    /\ pc = "downloading"
    /\ IF failure = ""
       THEN /\ tmp_dir' = tmp_dir
            /\ Goto([cmd EXCEPT !.extracted =
                        [i \in DOMAIN cmd.to_install |->
                            ExtractedPackage(cmd.to_install[i])]],
                    "collision")
       ELSE /\ tmp_dir' \in IF Len(cmd.to_install) > 1 THEN BOOLEAN ELSE {FALSE}
            /\ Finish(cmd, "err", failure)
    /\ UNCHANGED <<db, bin_dir, remote>>

\* ------------------------------------------ install_pkgs: collision check

\* install/installer.rs:120-129: binary name -> owning package, collected
\* into a map from the installed records in key order (a later record
\* overwrites an earlier one)
SeenBins(installed) ==
    LET keys == Sorted(DOMAIN installed, NameOrder)
        Lists(k, b) == b \in Range(installed[k].binaries)
        bins == UNION {Range(installed[k].binaries) : k \in DOMAIN installed}
        Last(b) == CHOOSE i \in DOMAIN keys :
                       /\ Lists(keys[i], b)
                       /\ \A j \in DOMAIN keys : Lists(keys[j], b) => j <= i
    IN [b \in bins |-> keys[Last(b)]]

\* the binaries of the extracted packages in order, each with its package
AllExtracted(extracted) ==
    LET RECURSIVE Flat(_)
        Flat(i) ==
            IF i > Len(extracted) THEN <<>>
            ELSE [j \in DOMAIN extracted[i].binaries |->
                    [pkg |-> extracted[i].manifest.name,
                     bin |-> extracted[i].binaries[j]]] \o Flat(i + 1)
    IN Flat(1)

\* install/installer.rs:133-157: the loop over the extracted binaries, from
\* item i on, with the map `seen` and the list `flat` built so far
RECURSIVE CollisionLoop(_, _, _, _)
CollisionLoop(items, i, seen, flat) ==
    IF i > Len(items) THEN [err |-> "", flattened |-> flat]
    ELSE LET it == items[i] IN
         IF it.bin.name \in DOMAIN seen
         THEN IF it.pkg # seen[it.bin.name]
              THEN [err |-> "BinaryCollision", flattened |-> <<>>]
              ELSE CollisionLoop(items, i + 1, seen, flat)
         ELSE CollisionLoop(items, i + 1,
                            (it.bin.name :> it.pkg) @@ seen,
                            Append(flat, it.bin))

\* a check that lets every extracted binary through
CheckCollisionsNone(installed, extracted) ==
    LET all == AllExtracted(extracted) IN
    [err |-> "", flattened |-> [i \in DOMAIN all |-> all[i].bin]]

\* install/installer.rs:120-157
CheckCollisions(installed, extracted) ==
    CollisionLoop(AllExtracted(extracted), 1, SeenBins(installed), <<>>)

CollisionCheck ==
    /\ pc = "collision"
    /\ LET res == CheckCollisions(db, cmd.extracted) IN
       IF res.err # ""
       THEN /\ tmp_dir' = FALSE
            /\ Finish(cmd, "err", res.err)
       ELSE /\ tmp_dir' = tmp_dir
            /\ Goto([cmd EXCEPT !.flattened = res.flattened], "copy")
    /\ UNCHANGED <<db, bin_dir, remote>>

\* ------------------------------------------------ install_pkgs: copy, commit

\* install/installer.rs:201-227: the closure given to Db::update, from the
\* extracted package i on
RECURSIVE RegisterLoop(_, _, _)
RegisterLoop(installed, extracted, i) ==
    IF i > Len(extracted) THEN installed
    ELSE LET pkg == extracted[i]
             name == pkg.manifest.name
             installed_as_dep ==
                 IF name \in DOMAIN installed
                 THEN installed[name].installed_as_dep
                 ELSE pkg.is_dep
             rec == InstalledPackage(
                        pkg.manifest, pkg.repo_name, pkg.version,
                        [j \in DOMAIN pkg.binaries |-> pkg.binaries[j].name],
                        installed_as_dep)
         IN RegisterLoop((name :> rec) @@ installed, extracted, i + 1)

\* a closure that takes installed_as_dep from the request every time
RECURSIVE RegisterLoopAsRequested(_, _, _)
RegisterLoopAsRequested(installed, extracted, i) ==
    IF i > Len(extracted) THEN installed
    ELSE LET pkg == extracted[i]
             rec == InstalledPackage(
                        pkg.manifest, pkg.repo_name, pkg.version,
                        [j \in DOMAIN pkg.binaries |-> pkg.binaries[j].name],
                        pkg.is_dep)
         IN RegisterLoopAsRequested((pkg.manifest.name :> rec) @@ installed,
                                    extracted, i + 1)

RegisterInstalledAsRequested(installed, extracted) ==
    RegisterLoopAsRequested(installed, extracted, 1)

\* a closure that registers nothing
RegisterInstalledNone(installed, extracted) == installed

RegisterInstalled(installed, extracted) == RegisterLoop(installed, extracted, 1)

\* a copy loop that registers the packages as it goes
CopyBinaryRegistering(ok) ==
    /\ pc = "copy"
    /\ cmd.copied < Len(cmd.flattened)
    /\ LET bin == cmd.flattened[cmd.copied + 1] IN
       IF ok
       THEN /\ bin_dir' = [bin_dir EXCEPT ![bin.name] =
                              [bin.content EXCEPT !.exec = TRUE]]
            /\ db' = RegisterInstalled(db, cmd.extracted)
            /\ tmp_dir' = tmp_dir
            /\ Goto([cmd EXCEPT !.copied = @ + 1], "copy")
       ELSE /\ bin_dir' = bin_dir
            /\ db' = db
            /\ tmp_dir' = FALSE
            /\ Finish(cmd, "err", "FilesystemError")
    /\ UNCHANGED remote

\* install/installer.rs:165-193: one iteration of the copy loop: fs::copy
\* to bin_dir/name, then set_permissions 0o755 (ok: both succeed; otherwise
\* fs::copy fails); on a failure the `?` returns and the temporary directory
\* is dropped
CopyBinary(ok) ==
    /\ pc = "copy"
    /\ cmd.copied < Len(cmd.flattened)
    /\ LET bin == cmd.flattened[cmd.copied + 1] IN
       IF ok
       THEN /\ bin_dir' = [bin_dir EXCEPT ![bin.name] =
                              [bin.content EXCEPT !.exec = TRUE]]
            /\ tmp_dir' = tmp_dir
            /\ Goto([cmd EXCEPT !.copied = @ + 1], "copy")
       ELSE /\ bin_dir' = bin_dir
            /\ tmp_dir' = FALSE
            /\ Finish(cmd, "err", "FilesystemError")
    /\ UNCHANGED <<db, remote>>

\* a database update that does not wait for the end of the copy loop
DbCommitEarly ==
    /\ pc = "copy"
    /\ db' = RegisterInstalled(db, cmd.extracted)
    /\ Goto([cmd EXCEPT !.writes = @ + 1], "cleanup")
    /\ UNCHANGED <<bin_dir, tmp_dir, remote>>

\* install/installer.rs:200-230 with db/mod.rs:80-91: the single Db::update
\* of install_pkgs, once the copy loop is over
DbCommit ==
    /\ pc = "copy"
    /\ cmd.copied = Len(cmd.flattened)
    /\ db' = RegisterInstalled(db, cmd.extracted)
    /\ Goto([cmd EXCEPT !.writes = @ + 1], "cleanup")
    /\ UNCHANGED <<bin_dir, tmp_dir, remote>>

\* install/installer.rs:238-251: tmp_dir.close()
Cleanup ==
    /\ pc = "cleanup"
    /\ tmp_dir' = FALSE
    /\ Finish(cmd, "ok", "")
    /\ UNCHANGED <<db, bin_dir, remote>>

\* --------------------------------------------------------------- uninstall

\* resolver.rs build_pkgs_reverse_deps_map: dependency -> its dependents
build_pkgs_reverse_deps_map(manifests) ==
    LET deps == UNION {Range(manifests[i].depends_on) : i \in DOMAIN manifests} IN
    [d \in deps |->
        {manifests[i].name : i \in {j \in DOMAIN manifests :
                                        d \in Range(manifests[j].depends_on)}}]

\* resolver.rs compute_no_longer_needed_deps_subroutine; installed: the
\* installed records in key order
RECURSIVE compute_no_longer_needed_deps_subroutine(_, _, _, _)
compute_no_longer_needed_deps_subroutine(installed, reverse_deps_map, uninstalling, out) ==
    LET Unneeded(rec) ==
            /\ rec.installed_as_dep
            /\ rec.manifest.name \notin uninstalling
            /\ IF rec.manifest.name \in DOMAIN reverse_deps_map
               THEN reverse_deps_map[rec.manifest.name] \ uninstalling = {}
               ELSE TRUE
        more == SelectSeq(installed, Unneeded)
    IN IF more = <<>> THEN out
       ELSE compute_no_longer_needed_deps_subroutine(
                installed, reverse_deps_map,
                uninstalling \cup {more[i].manifest.name : i \in DOMAIN more},
                out \o more)

\* a single pass over the installed packages, without the recursion
compute_no_longer_needed_deps_once(installed, uninstalling, reverse_deps_map) ==
    SelectSeq(installed, LAMBDA rec :
        /\ rec.installed_as_dep
        /\ rec.manifest.name \notin uninstalling
        /\ IF rec.manifest.name \in DOMAIN reverse_deps_map
           THEN reverse_deps_map[rec.manifest.name] \ uninstalling = {}
           ELSE TRUE)

\* resolver.rs compute_no_longer_needed_deps
compute_no_longer_needed_deps(installed, uninstalling, reverse_deps_map) ==
    compute_no_longer_needed_deps_subroutine(
        installed, reverse_deps_map, uninstalling, <<>>)

\* the installed records in key order
InstalledValues(installed) ==
    LET keys == Sorted(DOMAIN installed, NameOrder) IN
    [i \in DOMAIN keys |-> installed[keys[i]]]

\* a check that counts the requested packages among the dependents
WouldBreakAll(to_uninstall, names, reverse_deps_map) ==
    FirstIdx(to_uninstall, LAMBDA p :
        /\ p.manifest.name \in DOMAIN reverse_deps_map
        /\ reverse_deps_map[p.manifest.name] # {})

\* main.rs:150-166: the first requested package some installed package not
\* requested depends on, 0 if none
WouldBreak(to_uninstall, names, reverse_deps_map) ==
    FirstIdx(to_uninstall, LAMBDA p :
        /\ p.manifest.name \in DOMAIN reverse_deps_map
        /\ reverse_deps_map[p.manifest.name] \ Range(names) # {})

\* main.rs:141-197: the error the uninstall stops on before its prompt,
\* "" if none, and the names of to_uninstall
UninstallPlan(names, deps, installed_pkgs) ==
    LET installed == resolve_installed_pkgs(installed_pkgs, Registered)
        reverse_deps_map ==
            build_pkgs_reverse_deps_map(
                [i \in DOMAIN installed.pkgs |-> installed.pkgs[i].manifest])
        to_uninstall ==
            resolve_installed_pkgs_by_name(names, installed_pkgs, Registered)
        no_longer_needed_deps ==
            compute_no_longer_needed_deps(
                InstalledValues(installed_pkgs), Range(names), reverse_deps_map)
        all == IF no_longer_needed_deps # <<>> /\ deps
               THEN [i \in DOMAIN names |-> names[i]]
                    \o [i \in DOMAIN no_longer_needed_deps |->
                           no_longer_needed_deps[i].manifest.name]
               ELSE names
    IN IF installed.err # "" THEN [err |-> installed.err, removal |-> <<>>]
       ELSE IF to_uninstall.err # ""
       THEN [err |-> to_uninstall.err, removal |-> <<>>]
       ELSE IF WouldBreak(to_uninstall.pkgs, names, reverse_deps_map) # 0
       THEN [err |-> "WouldBreakDependents", removal |-> <<>>]
       ELSE [err |-> "", removal |-> all]

\* main.rs:140-202 Action::Uninstall up to the prompt
Uninstall(names, deps) ==
    /\ pc = "idle"
    /\ LET c == [NewCmd("uninstall", names, "", deps) EXCEPT
                    !.chain = IF names = <<prev.snap.name>> THEN prev.snap
                              ELSE NoSnap]
           plan == UninstallPlan(names, deps, db)
       IN IF plan.err # "" THEN Finish(c, "err", plan.err)
          ELSE Goto([c EXCEPT !.removal = plan.removal, !.asked = TRUE],
                    "u_confirm")
    /\ UNCHANGED <<db, bin_dir, tmp_dir, remote>>

\* main.rs:210-218: (binary, package) for every binary of every package
BinPaths(removal, installed) ==
    LET RECURSIVE Flat(_)
        Flat(i) ==
            IF i > Len(removal) THEN <<>>
            ELSE [j \in DOMAIN installed[removal[i]].binaries |->
                    [bin |-> installed[removal[i]].binaries[j],
                     pkg |-> removal[i]]] \o Flat(i + 1)
    IN Flat(1)

\* the prompt followed by the deletions, without the missing-binary check
ConfirmUninstallUnchecked(answer) ==
    /\ pc = "u_confirm"
    /\ IF ~answer THEN FinishDeclined(cmd, "ok", "")
       ELSE Goto([cmd EXCEPT !.bin_paths = BinPaths(cmd.removal, db)], "u_delete")
    /\ UNCHANGED <<db, bin_dir, tmp_dir, remote>>

\* main.rs:204-230: the answer to the prompt, then the missing-binary check
ConfirmUninstall(answer) ==
    /\ pc = "u_confirm"
    /\ LET bin_paths == BinPaths(cmd.removal, db) IN
       IF ~answer THEN FinishDeclined(cmd, "ok", "")
       ELSE IF \E i \in DOMAIN bin_paths : ~IsFile(bin_dir, bin_paths[i].bin)
       THEN Finish(cmd, "err", "BrokenInstall")
       ELSE Goto([cmd EXCEPT !.bin_paths = bin_paths], "u_delete")
    /\ UNCHANGED <<db, bin_dir, tmp_dir, remote>>

\* main.rs:232-241: one iteration of the deletion loop; fs::remove_file
\* fails on a file that is no longer there
DeleteBinary(ok) ==
    /\ pc = "u_delete"
    /\ cmd.deleted < Len(cmd.bin_paths)
    /\ LET bin == cmd.bin_paths[cmd.deleted + 1].bin IN
       IF ok /\ IsFile(bin_dir, bin)
       THEN /\ bin_dir' = [bin_dir EXCEPT ![bin] = NoFile]
            /\ Goto([cmd EXCEPT !.deleted = @ + 1], "u_delete")
       ELSE /\ bin_dir' = bin_dir
            /\ Finish(cmd, "err", "FilesystemError")
    /\ UNCHANGED <<db, tmp_dir, remote>>

\* main.rs:243-246: the names removed from the database, one per binary
UninstallNames(bin_paths) == [i \in DOMAIN bin_paths |-> bin_paths[i].pkg]

\* main.rs:249-251: the closure given to Db::update, from the name i on;
\* ok is FALSE when the assertion failed
RECURSIVE RemoveLoop(_, _, _)
RemoveLoop(installed, to_uninstall, i) ==
    IF i > Len(to_uninstall) THEN [ok |-> TRUE, installed |-> installed]
    ELSE IF to_uninstall[i] \notin DOMAIN installed
    THEN [ok |-> FALSE, installed |-> installed]
    ELSE RemoveLoop([n \in DOMAIN installed \ {to_uninstall[i]} |-> installed[n]],
                    to_uninstall, i + 1)

RemoveInstalled(installed, to_uninstall) == RemoveLoop(installed, to_uninstall, 1)

\* main.rs:243-258 with db/mod.rs:80-91: the Db::update of uninstall; a
\* failed assertion panics inside the closure, before the file is written
UninstallCommit ==
    /\ pc = "u_delete"
    /\ cmd.deleted = Len(cmd.bin_paths)
    /\ LET res == RemoveInstalled(db, UninstallNames(cmd.bin_paths)) IN
       IF res.ok
       THEN /\ db' = res.installed
            /\ Finish([cmd EXCEPT !.writes = @ + 1], "ok", "")
       ELSE /\ db' = db
            /\ Finish(cmd, "panic", "assertion failed")
    /\ UNCHANGED <<bin_dir, tmp_dir, remote>>

\* ------------------------------------------------------------------ repair

\* main.rs:309-317: the packages with a recorded binary that is no file
Broken(pkgs, installed, dir) ==
    SelectSeq(pkgs, LAMBDA p :
        \E b \in Range(installed[p.manifest.name].binaries) : ~IsFile(dir, b))

\* main.rs:302-333 Action::Repair up to the prompt
Repair(names) ==
    /\ pc = "idle"
    /\ LET c == NewCmd("repair", names, "Reinstall", FALSE)
           installed == IF names # <<>>
                        THEN resolve_installed_pkgs_by_name(names, db, Registered)
                        ELSE resolve_installed_pkgs(db, Registered)
           broken == Broken(installed.pkgs, db, bin_dir)
       IN IF installed.err # "" THEN Finish(c, "err", installed.err)
          ELSE IF broken = <<>> THEN Finish(c, "ok", "")
          ELSE Goto([c EXCEPT !.resolved = broken, !.asked = TRUE], "r_confirm")
    /\ UNCHANGED <<db, bin_dir, tmp_dir, remote>>

\* main.rs:331-340: the answer to the prompt, refresh_pkg, install_pkgs
ConfirmRepair(answer) ==
    /\ pc = "r_confirm"
    /\ LET fresh == refresh_pkgs(cmd.resolved, Registered) IN
       IF ~answer THEN FinishDeclined(cmd, "ok", "")
       ELSE IF fresh.err # "" THEN Finish(cmd, "err", fresh.err)
       ELSE EnterInstallPkgs(cmd, fresh.pkgs)
    /\ UNCHANGED <<db, bin_dir, tmp_dir, remote>>

\* ------------------------------------------------------------- environment

\* the upstream of a package publishes a new version
Publish(p) ==
    /\ pc = "idle"
    /\ remote[p] < MaxVersion
    /\ remote' = [remote EXCEPT ![p] = @ + 1]
    /\ prev' = NoPrev
    /\ UNCHANGED <<db, bin_dir, tmp_dir, pc, cmd>>
    /\ UNCHANGED <<repositories, resolver_vars, store_vars, plan_vars, dl_vars, unit_vars>>

\* a file of the binaries directory is removed behind the manager's back
RemoveFile(f) ==
    /\ pc = "idle"
    /\ IsFile(bin_dir, f)
    /\ bin_dir' = [bin_dir EXCEPT ![f] = NoFile]
    /\ prev' = NoPrev
    /\ UNCHANGED <<db, tmp_dir, remote, pc, cmd>>
    /\ UNCHANGED <<repositories, resolver_vars, store_vars, plan_vars, dl_vars, unit_vars>>

\* ------------------------------------------------ repository management

\* repos/ast.rs Repository, as parsed from a repository file
Repository(name, packages) == [name |-> name, packages |-> packages]

\* no file at the given path
NoRepoFile == Repository("", <<>>)

\* what a repository file may hold when it is read.  The first two are the
\* engine's repository and a second one, whose D is another package than the
\* first one's and whose E lists the same binary name twice; the third drops
\* D from the second; the last two hold a package under another name than
\* its own, and a package whose dependency the repository does not hold
RepoFiles ==
    { Repository("r1", EngineRepos["r1"]),
      Repository("r2", "D" :> Manifest("D", <<>>, <<"d">>)
                    @@ "E" :> Manifest("E", <<>>, <<"e", "e">>)),
      Repository("r2", "E" :> Manifest("E", <<>>, <<"e", "e">>)),
      Repository("r3", "D" :> Manifest("E", <<>>, <<"e">>)),
      Repository("r3", "E" :> Manifest("E", <<"B">>, <<"e">>)) }

\* repository files whose packages depend on each other in a circle: a
\* package that depends on itself, and two that depend on one another
CyclicFiles ==
    { Repository("r3", "Z" :> Manifest("Z", <<"Z">>, <<>>)),
      Repository("r3", "A" :> Manifest("A", <<"B">>, <<"a">>)
                    @@ "B" :> Manifest("B", <<"A">>, <<"b">>)) }

RepoPkgs == {"A", "B", "D", "E"}

RepoNames == {"r1", "r2", "r3"}

Locations == {"l1", "l2"}

\* the dependency check of validate_repository left out
validate_repository_names(repo) ==
    {<<"Misnamed", k, repo.packages[k].name>> :
        k \in {x \in DOMAIN repo.packages : x # repo.packages[x].name}}

\* validator.rs validate_repository: the errors found.  Every name of
\* RepoFiles matches NAME_REGEX and every source has valid parameters
validate_repository(repo) ==
    LET packages == repo.packages
        misnamed == {k \in DOMAIN packages : k # packages[k].name}
    IN IF misnamed # {}
       THEN {<<"Misnamed", k, packages[k].name>> : k \in misnamed}
       ELSE UNION {{<<"UnknownDependency", k, d>> :
                       d \in Range(packages[k].depends_on) \ DOMAIN packages} :
                   k \in DOMAIN packages}

\* fetch_repos.rs fetch_repository: the error, "" when the file is accepted
fetch_repository(file) ==
    IF file = NoRepoFile THEN "RepositoryUnreadable"
    ELSE IF validate_repository(file) # {} THEN "InvalidRepository"
    ELSE ""

\* the repository command returns
FinishRepos(kind, result, err) ==
    /\ pc' = "done"
    /\ cmd' = NoCmd
    /\ prev' = Summary([NewCmd(kind, <<>>, "", FALSE) EXCEPT
                           !.writes = IF repositories' # repositories
                                      THEN 1 ELSE 0],
                       result, err, FALSE)
    /\ UNCHANGED <<db, bin_dir, tmp_dir, remote>>
    /\ UNCHANGED <<resolver_vars, store_vars, plan_vars, dl_vars, unit_vars>>

\* main.rs:421-471 Action::AddRepo, the file at `location` holding `file`
AddRepo(location, file) ==
    /\ pc = "idle"
    /\ IF file = NoRepoFile
       THEN /\ repositories' = repositories
            /\ FinishRepos("add-repo", "err", "RepositoryUnreadable")
       ELSE IF \E r \in DOMAIN repositories : repositories[r].location = location
       THEN /\ repositories' = repositories
            /\ FinishRepos("add-repo", "ok", "")
       ELSE IF fetch_repository(file) # ""
       THEN /\ repositories' = repositories
            /\ FinishRepos("add-repo", "err", fetch_repository(file))
       ELSE IF file.name \in DOMAIN repositories
       THEN /\ repositories' = repositories
            /\ FinishRepos("add-repo", "err", "RepositoryExists")
       ELSE /\ repositories' =
                   repositories @@
                   (file.name :> SourcedRepository(location, file.packages))
            /\ FinishRepos("add-repo", "ok", "")

\* main.rs:473-501 Action::UpdateRepos, the file of each registered
\* repository r holding files[r] (no file is read for the other names)
UpdateRepos(files) ==
    /\ pc = "idle"
    /\ \A r \in DOMAIN files \ DOMAIN repositories : files[r] = NoRepoFile
    /\ LET failed == {r \in DOMAIN repositories :
                         fetch_repository(files[r]) # ""}
           renamed == {r \in DOMAIN repositories : files[r].name # r}
       IN IF DOMAIN repositories = {}
          THEN /\ repositories' = repositories
               /\ FinishRepos("update-repos", "ok", "")
          ELSE IF failed # {}
          THEN /\ repositories' = repositories
               /\ \E r \in failed :
                      FinishRepos("update-repos", "err", fetch_repository(files[r]))
          ELSE IF renamed # {}
          THEN /\ repositories' = repositories
               /\ FinishRepos("update-repos", "panic", "")
          ELSE /\ repositories' =
                      [r \in DOMAIN repositories |->
                          [repositories[r] EXCEPT !.content = files[r].packages]]
               /\ FinishRepos("update-repos", "ok", "")

\* main.rs:503-517 Action::RemoveRepos
RemoveRepos(names) ==
    /\ pc = "idle"
    /\ IF names \ DOMAIN repositories # {}
       THEN /\ repositories' = repositories
            /\ FinishRepos("remove-repos", "err", "RepositoryNotFound")
       ELSE /\ repositories' =
                   [r \in DOMAIN repositories \ names |-> repositories[r]]
            /\ FinishRepos("remove-repos", "ok", "")

\* ------------------------------------------------------ the database file

StoreNames == {"A", "B"}

\* db/data.rs AppData, as far as a commit goes: the installed packages and
\* their versions
AppDataDefault == [n \in {} |-> 0]

\* a token of the database file
Token(name, version) == [name |-> name, version |-> version]

\* no file at db_path
NoDbFile == <<Token("(no file)", 0)>>

RECURSIVE Entries(_, _)
Entries(data, keys) ==
    IF keys = <<>> THEN <<>>
    ELSE <<Token(keys[1], data[keys[1]])>> \o Entries(data, Tail(keys))

\* db/mod.rs:83-84 serde_json::to_string: the object, its entries in key
\* order
Serialize(data) ==
    <<Token("{", 0)>> \o Entries(data, Sorted(DOMAIN data, NameOrder))
        \o <<Token("}", 0)>>

\* db/mod.rs:62-67 serde_json::from_str: the data of a complete object, an
\* error for anything else
Deserialize(bytes) ==
    LET n == Len(bytes)
        complete == /\ n >= 2
                    /\ bytes[1] = Token("{", 0)
                    /\ bytes[n] = Token("}", 0)
                    /\ \A i \in 2..(n - 1) : bytes[i].name \in StoreNames
    IN IF complete
       THEN [ok |-> TRUE,
             data |-> [k \in {bytes[i].name : i \in 2..(n - 1)} |->
                          bytes[CHOOSE i \in 2..(n - 1) : bytes[i].name = k].version]]
       ELSE [ok |-> FALSE, data |-> AppDataDefault]

\* db/mod.rs:57-70: what Db::open_data_dir loads from the file
LoadDb(file) ==
    IF file = NoDbFile THEN [ok |-> TRUE, data |-> AppDataDefault]
    ELSE Deserialize(file)

StoreInit ==
    /\ db_data = AppDataDefault
    /\ db_file = NoDbFile
    /\ st_buf = <<>>
    /\ st_pre = AppDataDefault
    /\ st_pc = "open"

\* db/mod.rs:80-84 Db::update: the closure changes the data in memory (it
\* records version v for n, or removes n when v is 0), which is serialised
DbUpdate(n, v) ==
    /\ st_pc = "open"
    /\ IF v = 0 THEN n \in DOMAIN db_data ELSE TRUE
    /\ db_data' = IF v = 0
                  THEN [k \in DOMAIN db_data \ {n} |-> db_data[k]]
                  ELSE (n :> v) @@ db_data
    /\ st_buf' = Serialize(db_data')
    /\ st_pre' = db_data
    /\ st_pc' = "serialized"
    /\ UNCHANGED db_file
    /\ UNCHANGED <<engine_vars, resolver_vars, plan_vars, dl_vars, unit_vars>>

\* db/mod.rs:86 fs::write: the file is created or truncated (File::create)
Truncate(ok) ==
    /\ st_pc = "serialized"
    /\ db_file' = IF ok THEN <<>> ELSE db_file
    /\ st_pc' = IF ok THEN "writing" ELSE "closed"
    /\ UNCHANGED <<db_data, st_buf, st_pre>>
    /\ UNCHANGED <<engine_vars, resolver_vars, plan_vars, dl_vars, unit_vars>>

\* db/mod.rs:86 fs::write: the next bytes are written (write_all), or the
\* write fails and Db::update returns the error
WriteChunk(ok) ==
    /\ st_pc = "writing"
    /\ Len(db_file) < Len(st_buf)
    /\ db_file' = IF ok THEN Append(db_file, st_buf[Len(db_file) + 1])
                  ELSE db_file
    /\ st_pc' = IF ok THEN "writing" ELSE "closed"
    /\ UNCHANGED <<db_data, st_buf, st_pre>>
    /\ UNCHANGED <<engine_vars, resolver_vars, plan_vars, dl_vars, unit_vars>>

\* db/mod.rs:86-90: every byte is written; Db::update returns Ok
WriteEnd ==
    /\ st_pc = "writing"
    /\ Len(db_file) = Len(st_buf)
    /\ st_pc' = "open"
    /\ UNCHANGED <<db_data, db_file, st_buf, st_pre>>
    /\ UNCHANGED <<engine_vars, resolver_vars, plan_vars, dl_vars, unit_vars>>

\* the process is killed, or the machine stops, during Db::update
Interrupt ==
    /\ st_pc \in {"serialized", "writing"}
    /\ st_pc' = "closed"
    /\ UNCHANGED <<db_data, db_file, st_buf, st_pre>>
    /\ UNCHANGED <<engine_vars, resolver_vars, plan_vars, dl_vars, unit_vars>>

\* db/mod.rs:29-78 Db::open_data_dir, by the next command
OpenDb ==
    /\ st_pc = "closed"
    /\ LET loaded == LoadDb(db_file) IN
       IF loaded.ok
       THEN /\ db_data' = loaded.data
            /\ st_pc' = "open"
       ELSE /\ db_data' = db_data
            /\ st_pc' = "unreadable"
    /\ UNCHANGED <<db_file, st_buf, st_pre>>
    /\ UNCHANGED <<engine_vars, resolver_vars, plan_vars, dl_vars, unit_vars>>

\* ------------------------------------------------------- planner runs

PlanNames == {"A", "B"}

PlanRepos == {"r1", "r2"}

\* a resolved package of repository r1
PlanPkg(n, is_dep) ==
    [manifest |-> Manifest(n, <<>>, <<>>), repo |-> "r1", is_dep |-> is_dep]

\* the lists of resolved packages: one or two packages of different names,
\* each requested or a dependency, or the same package twice (`update A A`)
PlanPkgLists ==
    {<<PlanPkg(n, d)>> : n \in PlanNames, d \in BOOLEAN}
    \cup {<<PlanPkg(n, d), PlanPkg(n, d)>> : n \in PlanNames, d \in BOOLEAN}
    \cup {<<PlanPkg(nm[1], d), PlanPkg(nm[2], e)>> :
             nm \in {x \in PlanNames \X PlanNames : x[1] # x[2]},
             d \in BOOLEAN, e \in BOOLEAN}

\* the installed maps: each package installed or not, at any version, from
\* either repository
PlanInstalled ==
    UNION {[S -> {InstalledPackage(Manifest("", <<>>, <<>>), r, v, <<>>, FALSE) :
                     r \in PlanRepos, v \in 1..MaxVersion}] :
           S \in SUBSET PlanNames}

PlanIdle ==
    /\ p_pkgs = <<>>
    /\ p_policy = "Ignore"
    /\ p_installed = EmptyDb
    /\ p_remote = [n \in PlanNames |-> 1]
    /\ p_phases = NoPhases
    /\ p_pc = "planned"

\* ------------------------------------------- the downloader, task by task

\* the packages a call of the downloader may be given
DlJobs == {"A", "B", "D"}

\* a task that returned (its result waits in the JoinSet)
DlFinished == {"ok", "err", "cancelled"}

\* no call of the downloader
DlIdle ==
    /\ dl_jobs = {}
    /\ dl_task = [j \in DlJobs |-> "none"]
    /\ dl_closure = [j \in DlJobs |-> "none"]
    /\ dl_finalized = [j \in DlJobs |-> 0]
    /\ dl_call = [pc |-> "none", aborted |-> FALSE, results |-> {},
                  err |-> "", dropped_on |-> {}]

\* what the rest of the model keeps while the downloader runs
DlFrame ==
    /\ UNCHANGED <<repositories, db, bin_dir, remote, pc, cmd, prev>>
    /\ UNCHANGED <<resolver_vars, store_vars, plan_vars, unit_vars>>

\* where a task is after a step that leaves it at `at`: JoinSet::abort_all
\* takes effect when the task next returns Pending
DlAfter(at) ==
    IF dl_call.aborted /\ at \notin DlFinished THEN "cancelled" ELSE at

\* install/downloader.rs:30-91: TempDir::new, then one task spawned per
\* package
DlSpawn ==
    /\ dl_call.pc = "enter"
    /\ tmp_dir' = TRUE
    /\ dl_task' = [j \in DlJobs |-> IF j \in dl_jobs THEN "download" ELSE "none"]
    /\ dl_call' = [dl_call EXCEPT !.pc = "join"]
    /\ UNCHANGED <<dl_jobs, dl_closure, dl_finalized>>
    /\ DlFrame

\* install/downloader.rs:57-79: download_asset returns in the task of j;
\* on success the task hands extract_asset to spawn_blocking and awaits it
DlDownloaded(j, ok) ==
    /\ dl_task[j] = "download"
    /\ dl_task' = [dl_task EXCEPT ![j] = IF ok THEN DlAfter("extract") ELSE "err"]
    /\ dl_closure' = [dl_closure EXCEPT ![j] = IF ok THEN "running" ELSE @]
    /\ UNCHANGED <<tmp_dir, dl_jobs, dl_finalized, dl_call>>
    /\ DlFrame

\* install/downloader.rs:70-77: the blocking closure of j returns; it runs
\* on the blocking pool whether or not its task was aborted
DlExtracted(j, ok) ==
    /\ dl_closure[j] = "running"
    /\ dl_closure' = [dl_closure EXCEPT ![j] = IF ok THEN "returned" ELSE "failed"]
    /\ UNCHANGED <<tmp_dir, dl_jobs, dl_task, dl_finalized, dl_call>>
    /\ DlFrame

\* install/downloader.rs:78-86: the task of j gets the result of its
\* closure and, on success, calls finalize
DlAwaited(j) ==
    /\ dl_task[j] = "extract"
    /\ dl_closure[j] \in {"returned", "failed"}
    /\ IF dl_closure[j] = "returned"
       THEN /\ dl_task' = [dl_task EXCEPT ![j] = DlAfter("finalize")]
            /\ dl_finalized' = [dl_finalized EXCEPT ![j] = @ + 1]
       ELSE /\ dl_task' = [dl_task EXCEPT ![j] = "err"]
            /\ dl_finalized' = dl_finalized
    /\ UNCHANGED <<tmp_dir, dl_jobs, dl_closure, dl_call>>
    /\ DlFrame

\* install/downloader.rs:85-89: finalize returns in the task of j
DlFinalized(j, ok) ==
    /\ dl_task[j] = "finalize"
    /\ dl_task' = [dl_task EXCEPT ![j] = IF ok THEN "ok" ELSE "err"]
    /\ UNCHANGED <<tmp_dir, dl_jobs, dl_closure, dl_finalized, dl_call>>
    /\ DlFrame

\* utils.rs:67: an aborted task is cancelled where it awaits
DlCancelled(j) ==
    /\ dl_call.aborted
    /\ dl_task[j] \in {"download", "extract", "finalize"}
    /\ dl_task' = [dl_task EXCEPT ![j] = "cancelled"]
    /\ UNCHANGED <<tmp_dir, dl_jobs, dl_closure, dl_finalized, dl_call>>
    /\ DlFrame

\* utils.rs:61-67: join_next hands over a task that returned; on the first
\* error the others are aborted
DlJoinNext(j) ==
    /\ dl_call.pc = "join"
    /\ dl_task[j] \in {"ok", "err"}
    /\ dl_task' = [dl_task EXCEPT ![j] = "joined"]
    /\ dl_call' = IF dl_task[j] = "ok"
                  THEN [dl_call EXCEPT !.results = @ \cup {j}]
                  ELSE [dl_call EXCEPT !.pc = "drain", !.aborted = TRUE,
                                       !.err = j]
    /\ UNCHANGED <<tmp_dir, dl_jobs, dl_closure, dl_finalized>>
    /\ DlFrame

\* utils.rs:72: the loop that waits for the aborted tasks, whose results
\* are not kept
DlDrain(j) ==
    /\ dl_call.pc = "drain"
    /\ dl_task[j] \in DlFinished
    /\ dl_task' = [dl_task EXCEPT ![j] = "joined"]
    /\ UNCHANGED <<tmp_dir, dl_jobs, dl_closure, dl_finalized, dl_call>>
    /\ DlFrame

\* utils.rs:74, 79 with install/downloader.rs:93-98: join_next returned
\* None.  On success the directory goes to the caller; on an error it is
\* dropped (TempDir::drop: remove_dir_all, errors ignored), which a closure
\* still writing into it can make fail: removed tells which
DlReturn(removed) ==
    /\ dl_call.pc \in {"join", "drain"}
    /\ \A j \in dl_jobs : dl_task[j] = "joined"
    /\ IF dl_call.pc = "join"
       THEN /\ tmp_dir' = tmp_dir
            /\ dl_call' = [dl_call EXCEPT !.pc = "returned"]
       ELSE /\ tmp_dir' = IF \E j \in dl_jobs : dl_closure[j] = "running"
                          THEN ~removed ELSE FALSE
            /\ dl_call' = [dl_call EXCEPT
                              !.pc = "failed", !.results = {},
                              !.dropped_on = {j \in dl_jobs :
                                                 dl_closure[j] = "running"}]
    /\ UNCHANGED <<dl_jobs, dl_task, dl_closure, dl_finalized>>
    /\ DlFrame

\* install/installer.rs:120-251: the caller is done with the directory
\* (dropped on an error return, closed at the end)
DlRelease ==
    /\ dl_call.pc = "returned"
    /\ tmp_dir' = FALSE
    /\ dl_call' = [dl_call EXCEPT !.pc = "released"]
    /\ UNCHANGED <<dl_jobs, dl_task, dl_closure, dl_finalized>>
    /\ DlFrame

\* ------------------------------------ paths under the temporary directory

\* a package name is its dot-separated parts, e.g. <<"a", "tmp">> for
\* "a.tmp" (validator.rs:13-14: letters, digits, '-', '_' and '.')
TpTokens == {"a", "b", "tmp"}

TpNames == SeqsOf(TpTokens, 1, MaxTokens)

\* a package to install: its name, whether its asset is an archive, and how
\* many `files` entries the archive has
TpPkgs == [name : TpNames, archive : BOOLEAN, files : {1, 2}]

\* install/downloader.rs:107: dl_dir.join(format!("{}.tmp", pkg.name))
DlFilePath(name) == <<name \o <<"tmp">>>>

\* Path::with_extension(""): the file name without what follows its last dot
WithoutExtension(path) ==
    LET file == path[Len(path)] IN
    IF Len(file) > 1
    THEN [path EXCEPT ![Len(path)] = SubSeq(file, 1, Len(file) - 1)]
    ELSE path

\* install/extract/mod.rs:51: asset_path.with_extension("")
ExtractionDir(asset_path) == WithoutExtension(asset_path)

\* install/extract/mod.rs:157: tmp_dir.join(format!("{i}-{name}")), for the
\* binary "x" of the i-th `files` entry (counted from 0)
StagedPath(extraction_dir, i) ==
    extraction_dir \o << <<IF i = 0 THEN "0-x" ELSE "1-x">> >>

\* what the task of a package does under the temporary directory, in order:
\* File::create of the download file (downloader.rs:109), then for an
\* archive fs::create_dir of the extraction directory (extract/mod.rs:53)
\* and File::create_new of each staged binary (extract/mod.rs:159)
TpOps(pkg) ==
    LET file == DlFilePath(pkg.name)
        dir == ExtractionDir(file)
    IN <<[op |-> "create", path |-> file]>>
       \o (IF pkg.archive
           THEN <<[op |-> "create_dir", path |-> dir]>>
                \o [i \in 1..pkg.files |->
                      [op |-> "create_new", path |-> StagedPath(dir, i - 1)]]
           ELSE <<>>)

\* the kind of what is at a path: "file", "dir" or "none"
TpKind(fs, path) ==
    IF \E e \in fs : e.path = path
    THEN (CHOOSE e \in fs : e.path = path).kind
    ELSE "none"

\* whether an operation succeeds: File::create truncates a file but fails
\* on a directory, create_dir and create_new fail on anything that exists
TpSucceeds(fs, o) ==
    IF o.op = "create" THEN TpKind(fs, o.path) # "dir"
    ELSE TpKind(fs, o.path) = "none"

\* the task of package p does its next operation; a failure ends the batch
TpStep(p) ==
    /\ u_pc = "running"
    /\ ~u_out.failed
    /\ p \in DOMAIN u_in
    /\ u_out.at[p] <= Len(TpOps(u_in[p]))
    /\ LET o == TpOps(u_in[p])[u_out.at[p]]
           ok == TpSucceeds(u_out.fs, o)
       IN u_out' = [u_out EXCEPT
                       !.at[p] = @ + 1,
                       !.failed = ~ok,
                       !.touched = @ \cup {[path |-> o.path, by |-> p]},
                       !.fs = IF ok /\ TpKind(u_out.fs, o.path) = "none"
                              THEN @ \cup {[path |-> o.path,
                                            kind |-> IF o.op = "create_dir"
                                                     THEN "dir" ELSE "file"]}
                              ELSE @]
    /\ UNCHANGED <<u_in, u_pc>>
    /\ UNCHANGED <<engine_vars, resolver_vars, store_vars, plan_vars, dl_vars>>

\* ---------------------------------------------------------- extract_archive

\* the simplified paths of the entries of the archives, and their contents
ExPaths == {"bin/x", "bin/y", "README"}

ExContents == {1, 2}

\* an archive: its entries in order, each a path and the bytes it holds
ExArchives == SeqsOf([path : ExPaths, content : ExContents], 0, MaxEntries)

\* the `files` of an Archive asset: each path_matcher is given by the paths
\* it matches (rename_as is not set)
ExFiles == SeqsOf(SUBSET ExPaths, 0, MaxPatterns)

\* no binary extracted yet for a pattern
ExNone == [path |-> "", entry |-> 0, content |-> 0, staged |-> <<0, "">>]

\* install/extract/mod.rs:145-148: the last component of the path
ExNameOf(path) ==
    CASE path = "bin/x" -> "x" [] path = "bin/y" -> "y" [] OTHER -> path

\* install/extract/mod.rs:110-177: the patterns from the i-th on against the
\* entry e of the archive; st = [err, extracted]
RECURSIVE ExPatterns(_, _, _, _, _)
ExPatterns(st, archive, files, e, i) ==
    IF i > Len(files) \/ st.err # "" THEN st
    ELSE LET path == archive[e].path IN
         IF path \notin files[i] THEN ExPatterns(st, archive, files, e, i + 1)
         ELSE IF st.extracted[i] # ExNone
         THEN [st EXCEPT !.err = "PatternMatchedMultiple"]
         ELSE IF \E k \in DOMAIN st.extracted : st.extracted[k].path = path
         THEN [st EXCEPT !.err = "EntryMatchedByMultiplePatterns"]
         ELSE ExPatterns(
                  [st EXCEPT !.extracted[i] =
                      [path |-> path, entry |-> e,
                       content |-> archive[e].content,
                       staged |-> <<i - 1, ExNameOf(path)>>]],
                  archive, files, e, i + 1)

\* install/extract/mod.rs:107-178: the entries from the e-th on
RECURSIVE ExEntries(_, _, _, _)
ExEntries(st, archive, files, e) ==
    IF e > Len(archive) \/ st.err # "" THEN [st EXCEPT !.scanned = e - 1]
    ELSE ExEntries(ExPatterns(st, archive, files, e, 1), archive, files, e + 1)

\* a scan that keeps the first entry a pattern matches and ignores the others
RECURSIVE ExPatternsFirst(_, _, _, _, _)
ExPatternsFirst(st, archive, files, e, i) ==
    IF i > Len(files) THEN st
    ELSE IF archive[e].path \notin files[i] \/ st.extracted[i] # ExNone
    THEN ExPatternsFirst(st, archive, files, e, i + 1)
    ELSE ExPatternsFirst(
             [st EXCEPT !.extracted[i] =
                 [path |-> archive[e].path, entry |-> e,
                  content |-> archive[e].content,
                  staged |-> <<i - 1, ExNameOf(archive[e].path)>>]],
             archive, files, e, i + 1)

RECURSIVE ExEntriesFirst(_, _, _, _)
ExEntriesFirst(st, archive, files, e) ==
    IF e > Len(archive) THEN [st EXCEPT !.scanned = e - 1]
    ELSE ExEntriesFirst(ExPatternsFirst(st, archive, files, e, 1),
                        archive, files, e + 1)

ExScanFirst(archive, files) ==
    ExEntriesFirst([err |-> "", scanned |-> 0,
                    extracted |-> [i \in DOMAIN files |-> ExNone]],
                   archive, files, 1)

\* install/extract/mod.rs:100-178: the loop over the entries
ExScan(archive, files) ==
    ExEntries([err |-> "", scanned |-> 0,
               extracted |-> [i \in DOMAIN files |-> ExNone]],
              archive, files, 1)

\* install/extract/mod.rs:92-200 extract_archive: the error, or the
\* binaries in the order of `files`
extract_archive(archive, files) ==
    LET st == ExScan(archive, files) IN
    IF st.err # "" THEN [err |-> st.err, scanned |-> st.scanned, binaries |-> <<>>]
    ELSE IF \E i \in DOMAIN files : st.extracted[i] = ExNone
    THEN [err |-> "PatternMatchedNothing", scanned |-> st.scanned,
          binaries |-> <<>>]
    ELSE [err |-> "", scanned |-> st.scanned, binaries |-> st.extracted]

\* the blocking closure runs extract_archive on the downloaded archive
Extract ==
    /\ u_pc = "input"
    /\ u_out' = extract_archive(u_in.archive, u_in.files)
    /\ u_pc' = "returned"
    /\ UNCHANGED u_in
    /\ UNCHANGED <<engine_vars, resolver_vars, store_vars, plan_vars, dl_vars>>

\* ------------------------------------------------- GitHubSource::fetch_infos

\* sources/github.rs:186-190 GitHubReleaseAsset
GhAssets == [name : {"linux", "windows"}, browser_download_url : {"u1", "u2"}]

\* sources/github.rs:179-184 GitHubRelease; the title may be absent
GhNoTitle == "null"

GhReleases ==
    [name : {GhNoTitle, "title"}, tag_name : {"tag"},
     assets : SeqsOf(GhAssets, 0, MaxAssets)]

\* the asset pattern of the current platform, given by the names it matches
GhPatterns == SUBSET {"linux", "windows"}

GitHubVersionExtraction == {"TagName", "ReleaseTitle"}

\* Iterator::partition of sources/github.rs:105-108
GhFiltered(release, asset_pattern) ==
    SelectSeq(release.assets, LAMBDA a : a.name \in asset_pattern)

GhNonMatching(release, asset_pattern) ==
    SelectSeq(release.assets, LAMBDA a : a.name \notin asset_pattern)

GhFail(msg, listed) ==
    [err |-> msg, listed |-> listed, url |-> "", version |-> ""]

\* a fetch that takes the first matching asset when several match
fetch_infos_first(release, asset_pattern, version) ==
    LET filtered == GhFiltered(release, asset_pattern) IN
    IF release.assets = <<>> THEN GhFail("No asset found in latest release", <<>>)
    ELSE IF filtered = <<>>
    THEN GhFail("No entry matched the release regex",
                GhNonMatching(release, asset_pattern))
    ELSE IF version = "ReleaseTitle" /\ release.name = GhNoTitle
    THEN GhFail("Fetched released has no title", <<>>)
    ELSE [err |-> "", listed |-> <<>>,
          url |-> filtered[1].browser_download_url,
          version |-> IF version = "TagName" THEN release.tag_name
                      ELSE release.name]

\* sources/github.rs:101-143: fetch_infos once the latest release was
\* fetched and parsed
fetch_infos(release, asset_pattern, version) ==
    LET filtered == GhFiltered(release, asset_pattern) IN
    IF release.assets = <<>> THEN GhFail("No asset found in latest release", <<>>)
    ELSE IF Len(filtered) > 1
    THEN GhFail("Multiple entries matched the asset regex", filtered)
    ELSE IF filtered = <<>>
    THEN GhFail("No entry matched the release regex",
                GhNonMatching(release, asset_pattern))
    ELSE IF version = "ReleaseTitle" /\ release.name = GhNoTitle
    THEN GhFail("Fetched released has no title", <<>>)
    ELSE [err |-> "", listed |-> <<>>,
          url |-> filtered[1].browser_download_url,
          version |-> IF version = "TagName" THEN release.tag_name
                      ELSE release.name]

\* the error kind of each failure message of fetch_infos
GhErrorKind(msg) ==
    CASE msg = "No asset found in latest release" -> "NoMatchingAsset"
      [] msg = "No entry matched the release regex" -> "NoMatchingAsset"
      [] msg = "Multiple entries matched the asset regex" -> "AmbiguousAsset"
      [] msg = "Fetched released has no title" -> "MissingReleaseTitle"
      [] OTHER -> ""

GitHubFetchInfos ==
    /\ u_pc = "release"
    /\ u_out' = fetch_infos(u_in.release, u_in.asset_pattern, u_in.version)
    /\ u_pc' = "fetched"
    /\ UNCHANGED u_in
    /\ UNCHANGED <<engine_vars, resolver_vars, store_vars, plan_vars, dl_vars>>

\* ------------------------------------------------ fetch_resolved_pkg_infos

\* the packages a planning step may fetch informations about
FiNames == {"A", "B", "D"}

\* the resolved packages given to fetch_resolved_pkg_infos: distinct names,
\* in any order
FiPkgs ==
    {pkgs \in SeqsOf(FiNames, 1, MaxFetch) :
        \A i, j \in DOMAIN pkgs : i # j => pkgs[i] # pkgs[j]}

\* what fetch_infos returns for the manifest of the package `name`
FiInfos(name) == [url |-> <<"asset of", name>>, version |-> 1]

\* results.sort_by_key(|(pos, _)| *pos): insertion of one result
RECURSIVE FiInsert(_, _)
FiInsert(sorted, x) ==
    IF sorted = <<>> THEN <<x>>
    ELSE IF x.pos < Head(sorted).pos THEN <<x>> \o sorted
    ELSE <<Head(sorted)>> \o FiInsert(Tail(sorted), x)

RECURSIVE FiSort(_)
FiSort(results) ==
    IF results = <<>> THEN <<>>
    ELSE FiInsert(FiSort(SubSeq(results, 1, Len(results) - 1)),
                  results[Len(results)])

\* the results in the order the tasks completed
join_fallible_unordered(results) ==
    [k \in DOMAIN results |-> results[k].value]

\* utils.rs:82-90 join_fallible_ordered_set, on the results that
\* join_fallible_set collected
join_fallible_ordered_set(results) ==
    LET sorted == FiSort(results) IN [k \in DOMAIN sorted |-> sorted[k].value]

\* install/fetch_infos.rs:51-61: the fetched informations paired with the
\* packages by position
fetch_resolved_pkg_infos(pkgs, results) ==
    LET fetched == join_fallible_ordered_set(results) IN
    [i \in DOMAIN fetched |-> [pkg |-> pkgs[i], asset_info |-> fetched[i].infos]]

\* install/fetch_infos.rs:27-42: the task of the i-th package finishes its
\* request, with its informations or an error
FiComplete(i, ok) ==
    /\ u_pc \in {"joining", "draining"}
    /\ i \in DOMAIN u_in
    /\ u_out.task[i] = "running"
    /\ u_out' = [u_out EXCEPT !.task[i] = IF ok THEN "ok" ELSE "err",
                              !.ready = Append(@, i)]
    /\ UNCHANGED <<u_in, u_pc>>
    /\ UNCHANGED <<engine_vars, resolver_vars, store_vars, plan_vars, dl_vars>>

\* utils.rs:62-78: join_next returns the task that completed first.  With
\* the last result, join_fallible_ordered_set sorts, fetch_resolved_pkg_infos
\* pairs, and the loop of compute_install_phases (phases.rs:122-176)
\* classifies; on an error the other tasks are aborted
FiJoinNext ==
    /\ u_pc = "joining"
    /\ u_out.ready # <<>>
    /\ LET i == Head(u_out.ready)
           results == Append(u_out.results,
                             [pos |-> i,
                              value |-> [pkg |-> u_in[i],
                                         infos |-> FiInfos(u_in[i])]])
       IN IF u_out.task[i] = "ok"
          THEN /\ u_out' =
                     [u_out EXCEPT
                         !.task[i] = "joined",
                         !.ready = Tail(@),
                         !.results = results,
                         !.classified =
                             IF Len(results) = Len(u_in)
                             THEN fetch_resolved_pkg_infos(u_in, results)
                             ELSE @]
               /\ u_pc' = IF Len(results) = Len(u_in) THEN "classified"
                          ELSE "joining"
          ELSE /\ u_out' =
                     [u_out EXCEPT
                         !.task = [k \in DOMAIN @ |->
                                      IF k = i THEN "joined"
                                      ELSE IF @[k] = "running" THEN "aborting"
                                      ELSE @[k]],
                         !.ready = Tail(@),
                         !.err = <<"Failed to fetch informations about package",
                                   u_in[i]>>]
               /\ u_pc' = "draining"
    /\ UNCHANGED u_in
    /\ UNCHANGED <<engine_vars, resolver_vars, store_vars, plan_vars, dl_vars>>

\* JoinSet::abort_all: an aborted task stops at its next await
FiAborted(i) ==
    /\ u_pc = "draining"
    /\ i \in DOMAIN u_in
    /\ u_out.task[i] = "aborting"
    /\ u_out' = [u_out EXCEPT !.task[i] = "aborted", !.ready = Append(@, i)]
    /\ UNCHANGED <<u_in, u_pc>>
    /\ UNCHANGED <<engine_vars, resolver_vars, store_vars, plan_vars, dl_vars>>

\* utils.rs:72-75: `while tasks.join_next().await.is_some() {}`, then the
\* error is returned and compute_install_phases returns it (`?`)
FiDrain ==
    /\ u_pc = "draining"
    /\ IF u_out.ready # <<>>
       THEN /\ u_out' = [u_out EXCEPT !.task[Head(u_out.ready)] = "joined",
                                      !.ready = Tail(@)]
            /\ u_pc' = u_pc
       ELSE /\ \A i \in DOMAIN u_in : u_out.task[i] = "joined"
            /\ u_out' = u_out
            /\ u_pc' = "failed"
    /\ UNCHANGED u_in
    /\ UNCHANGED <<engine_vars, resolver_vars, store_vars, plan_vars, dl_vars>>

\* ----------------------------------------------------------- download_asset

\* a chunk of a response body: Response::chunk never yields an empty one
DaChunks == SeqsOf({0, 1}, 1, MaxChunkLen)

\* the response bodies of the download runs
DaBodies == SeqsOf(DaChunks, 0, MaxChunks)

\* install/downloader.rs:126-136: one iteration of the loop.  res.chunk()
\* yields the next chunk and dl_file.write(&chunk) writes its first n bytes
\* (AsyncWriteExt::write returns how many bytes it wrote, from 1 to the
\* whole chunk; the loop does not look at the count); or one of the two
\* fails
DaWrite(n, ok) ==
    /\ u_pc = "streaming"
    /\ u_out.next <= Len(u_in)
    /\ n <= Len(u_in[u_out.next])
    /\ IF ok
       THEN /\ u_out' = [u_out EXCEPT
                            !.file = @ \o SubSeq(u_in[u_out.next], 1, n),
                            !.next = @ + 1]
            /\ u_pc' = u_pc
       ELSE /\ u_out' = u_out
            /\ u_pc' = "failed"
    /\ UNCHANGED u_in
    /\ UNCHANGED <<engine_vars, resolver_vars, store_vars, plan_vars, dl_vars>>

\* install/downloader.rs:126-141: res.chunk() yields None, the file is
\* flushed and its path returned
DaFlush(ok) ==
    /\ u_pc = "streaming"
    /\ u_out.next > Len(u_in)
    /\ u_pc' = IF ok THEN "returned" ELSE "failed"
    /\ UNCHANGED <<u_in, u_out>>
    /\ UNCHANGED <<engine_vars, resolver_vars, store_vars, plan_vars, dl_vars>>

\* no run of a single function
UnitIdle ==
    /\ u_in = <<>>
    /\ u_out = <<>>
    /\ u_pc = "none"

\* ----------------------------------------------------------- specification

Requests(lo) == SeqsOf(EnginePkgs, lo, MaxNames)

EngineInit ==
    /\ repositories =
           [r \in DOMAIN EngineRepos |->
               SourcedRepository("l1", EngineRepos[r])]
    /\ db = EmptyDb
    /\ bin_dir = [f \in Files |-> NoFile]
    /\ tmp_dir = FALSE
    /\ remote = [p \in EnginePkgs \cup RepoPkgs |-> 1]
    /\ pc = "idle"
    /\ cmd = NoCmd
    /\ prev = NoPrev

Init ==
    /\ EngineInit
    /\ StoreInit
    /\ UnitIdle
    /\ DlIdle
    /\ PlanIdle
    /\ r_repos = EngineRepos
    /\ r_names = <<>>
    /\ r_pkgs = <<>>
    /\ r_st = [queue |-> <<>>, handled |-> EmptyHandled, err |-> ""]
    /\ r_pc = "done"

Failures == {"", "NetworkFailure", "ExtractionFailed"}

Next ==
    \/ \E names \in Requests(1), force, check_updates \in BOOLEAN :
           Install(names, force, check_updates)
    \/ \E names \in Requests(0), force \in BOOLEAN : Update(names, force)
    \/ \E ok \in BOOLEAN : FetchInfos(ok)
    \/ \E answer \in BOOLEAN : ConfirmInstall(answer)
    \/ \E ok \in BOOLEAN : StartDownload(ok)
    \/ \E failure \in Failures : FinishDownload(failure)
    \/ CollisionCheck
    \/ \E ok \in BOOLEAN : CopyBinary(ok)
    \/ DbCommit
    \/ Cleanup
    \/ \E names \in Requests(1), deps \in BOOLEAN : Uninstall(names, deps)
    \/ \E answer \in BOOLEAN : ConfirmUninstall(answer)
    \/ \E ok \in BOOLEAN : DeleteBinary(ok)
    \/ UninstallCommit
    \/ \E names \in Requests(0) : Repair(names)
    \/ \E answer \in BOOLEAN : ConfirmRepair(answer)
    \/ Exit
    \/ \E p \in Upstreams : Publish(p)
    \/ \E f \in Files : RemoveFile(f)

Spec == Init /\ [][Next]_vars

\* ------------------------------------- the engine with repository commands

\* the commands of the runs that change the registered repositories: one
\* name at a time, no flag
RepoRequests == {<<n>> : n \in RepoPkgs}

NextRepos ==
    \/ \E location \in Locations, file \in RepoFiles \cup {NoRepoFile} :
           AddRepo(location, file)
    \/ \E files \in [RepoNames -> RepoFiles \cup {NoRepoFile}] :
           UpdateRepos(files)
    \/ \E names \in (SUBSET RepoNames) \ {{}} : RemoveRepos(names)
    \/ \E names \in RepoRequests : Install(names, FALSE, FALSE)
    \/ Update(<<>>, FALSE)
    \/ \E ok \in BOOLEAN : FetchInfos(ok)
    \/ \E answer \in BOOLEAN : ConfirmInstall(answer)
    \/ \E ok \in BOOLEAN : StartDownload(ok)
    \/ \E failure \in Failures : FinishDownload(failure)
    \/ CollisionCheck
    \/ \E ok \in BOOLEAN : CopyBinary(ok)
    \/ DbCommit
    \/ Cleanup
    \/ \E names \in RepoRequests : Uninstall(names, FALSE)
    \/ \E answer \in BOOLEAN : ConfirmUninstall(answer)
    \/ \E ok \in BOOLEAN : DeleteBinary(ok)
    \/ UninstallCommit
    \/ Repair(<<>>)
    \/ \E answer \in BOOLEAN : ConfirmRepair(answer)
    \/ Exit
    \/ \E f \in Files : RemoveFile(f)

SpecRepos == Init /\ [][NextRepos]_vars

\* --------------------------- the engine with a repository that gains a
\* --------------------------- dependency

\* the engine's repository after its maintainer made B depend on D
GrownRepo ==
    [EngineRepos["r1"] EXCEPT !["B"] = Manifest("B", <<"D">>, <<"b">>)]

\* what update-repos reads: the engine's repository as it was, or grown
GrownFiles ==
    {[r \in RepoNames |->
         IF r = "r1" THEN Repository("r1", content) ELSE NoRepoFile] :
     content \in {EngineRepos["r1"], GrownRepo}}

\* the commands of these runs name one package
GrownRequests == {<<n>> : n \in {"A", "B", "D"}}

NextGrown ==
    \/ \E files \in GrownFiles : UpdateRepos(files)
    \/ \E names \in GrownRequests, force \in BOOLEAN :
           Install(names, force, FALSE)
    \/ \E names \in GrownRequests \cup {<<>>}, force \in BOOLEAN :
           Update(names, force)
    \/ \E ok \in BOOLEAN : FetchInfos(ok)
    \/ \E answer \in BOOLEAN : ConfirmInstall(answer)
    \/ \E ok \in BOOLEAN : StartDownload(ok)
    \/ \E failure \in Failures : FinishDownload(failure)
    \/ CollisionCheck
    \/ \E ok \in BOOLEAN : CopyBinary(ok)
    \/ DbCommit
    \/ Cleanup
    \/ \E names \in GrownRequests, deps \in BOOLEAN : Uninstall(names, deps)
    \/ \E answer \in BOOLEAN : ConfirmUninstall(answer)
    \/ \E ok \in BOOLEAN : DeleteBinary(ok)
    \/ UninstallCommit
    \/ Repair(<<>>)
    \/ \E answer \in BOOLEAN : ConfirmRepair(answer)
    \/ Exit
    \/ \E f \in Files : RemoveFile(f)

SpecGrown == Init /\ [][NextGrown]_vars

\* --------------------------- the engine with a repository whose package
\* --------------------------- changes its binaries, every step succeeding

\* the engine's repository after its maintainer renamed B's binary
RenamedRepo ==
    [EngineRepos["r1"] EXCEPT !["B"] = Manifest("B", <<>>, <<"e">>)]

\* what update-repos reads: the engine's repository as it was, or renamed
RenamedFiles ==
    {[r \in RepoNames |->
         IF r = "r1" THEN Repository("r1", content) ELSE NoRepoFile] :
     content \in {EngineRepos["r1"], RenamedRepo}}

\* the commands of these runs name one package, of one binary
RenamedRequests == {<<n>> : n \in {"A", "B"}}

\* no request, download, extraction, copy or deletion fails, the user
\* accepts, and nobody else touches the binaries directory
NextRenamed ==
    \/ \E files \in RenamedFiles : UpdateRepos(files)
    \/ \E names \in RenamedRequests, force \in BOOLEAN :
           Install(names, force, FALSE)
    \/ \E names \in RenamedRequests \cup {<<>>}, force \in BOOLEAN :
           Update(names, force)
    \/ FetchInfos(TRUE)
    \/ ConfirmInstall(TRUE)
    \/ StartDownload(TRUE)
    \/ FinishDownload("")
    \/ CollisionCheck
    \/ CopyBinary(TRUE)
    \/ DbCommit
    \/ Cleanup
    \/ \E names \in RenamedRequests, deps \in BOOLEAN : Uninstall(names, deps)
    \/ ConfirmUninstall(TRUE)
    \/ DeleteBinary(TRUE)
    \/ UninstallCommit
    \/ Exit
    \/ \E p \in Upstreams : Publish(p)

SpecRenamed == Init /\ [][NextRenamed]_vars

\* ------------------------------------------------ runs of the planner alone

\* the inputs of a planner run.  `install` resolves at least one requested
\* package and no package twice; `update` (the only source of the policy
\* Update) resolves installed packages only
InitPlan ==
    /\ EngineInit
    /\ StoreInit
    /\ UnitIdle
    /\ DlIdle
    /\ r_repos = EngineRepos
    /\ r_names = <<>>
    /\ r_pkgs = <<>>
    /\ r_st = [queue |-> <<>>, handled |-> EmptyHandled, err |-> ""]
    /\ r_pc = "done"
    /\ p_pkgs \in PlanPkgLists
    /\ p_policy \in {"Ignore", "CheckUpdates", "Update", "Reinstall"}
    /\ p_installed \in PlanInstalled
    /\ p_remote \in [PlanNames -> 1..MaxVersion]
    /\ p_phases = NoPhases
    /\ p_pc = "input"
    /\ p_policy \in {"Ignore", "CheckUpdates"} =>
          /\ \E i \in DOMAIN p_pkgs : ~p_pkgs[i].is_dep
          /\ \A i, j \in DOMAIN p_pkgs :
                i # j => p_pkgs[i].manifest.name # p_pkgs[j].manifest.name
    /\ p_policy = "Update" =>
          \A i \in DOMAIN p_pkgs : p_pkgs[i].manifest.name \in DOMAIN p_installed

\* install/phases.rs:42-182 compute_install_phases, its fetch_info calls
\* succeeding or not
Plan(ok) ==
    /\ p_pc = "input"
    /\ p_phases' = compute_install_phases(p_pkgs, p_policy, p_installed,
                                          ok, p_remote)
    /\ p_pc' = "planned"
    /\ UNCHANGED <<p_pkgs, p_policy, p_installed, p_remote>>
    /\ UNCHANGED <<engine_vars, resolver_vars, store_vars, dl_vars, unit_vars>>

NextPlan == \E ok \in BOOLEAN : Plan(ok)

SpecPlan == InitPlan /\ [][NextPlan]_vars

\* ----------------------------------------------- runs of uninstall alone

\* the packages of the uninstall runs and the one binary each of them owns
UnNames == {"A", "B", "D"}

UnBin == "A" :> "a" @@ "B" :> "b" @@ "D" :> "d"

\* db/data.rs InstalledPackage: the record of n, with the dependencies its
\* manifest had when it was installed
UnRecord(n, depends_on, installed_as_dep) ==
    InstalledPackage(Manifest(n, depends_on, <<UnBin[n]>>), "r1", 1,
                     <<UnBin[n]>>, installed_as_dep)

\* the databases an uninstall may find: any packages, each depending on up
\* to MaxDeps other installed packages (listed in name order), installed as
\* a dependency or not
UnInstalled ==
    LET Lists(S) ==
            {l \in SeqsOf(S, 0, MaxDeps) : l = Sorted(Range(l), NameOrder)}
    IN UNION {
         {[n \in S |-> UnRecord(n, d[n], a[n])] :
             d \in {x \in [S -> Lists(S)] : \A n \in S : n \notin Range(x[n])},
             a \in [S -> BOOLEAN]}
         : S \in SUBSET UnNames}

\* the database and the binaries directory an uninstall starts from
InitUninstall ==
    /\ repositories =
           [r \in DOMAIN EngineRepos |->
               SourcedRepository("l1", EngineRepos[r])]
    /\ db \in UnInstalled
    /\ bin_dir = [f \in Files |->
                    IF \E n \in DOMAIN db : UnBin[n] = f
                    THEN [pkg |-> CHOOSE n \in DOMAIN db : UnBin[n] = f,
                          version |-> 1, exec |-> TRUE]
                    ELSE NoFile]
    /\ tmp_dir = FALSE
    /\ remote = [p \in EnginePkgs \cup RepoPkgs |-> 1]
    /\ pc = "idle"
    /\ cmd = NoCmd
    /\ prev = NoPrev
    /\ StoreInit
    /\ UnitIdle
    /\ DlIdle
    /\ PlanIdle
    /\ r_repos = EngineRepos
    /\ r_names = <<>>
    /\ r_pkgs = <<>>
    /\ r_st = [queue |-> <<>>, handled |-> EmptyHandled, err |-> ""]
    /\ r_pc = "done"

UnRequests == SeqsOf(UnNames, 1, MaxNames)

NextUninstall ==
    \/ \E names \in UnRequests, deps \in BOOLEAN : Uninstall(names, deps)
    \/ \E answer \in BOOLEAN : ConfirmUninstall(answer)
    \/ \E ok \in BOOLEAN : DeleteBinary(ok)
    \/ UninstallCommit
    \/ Exit

SpecUninstall == InitUninstall /\ [][NextUninstall]_vars

\* --------------------------------------------- runs of the downloader alone

InitDl ==
    /\ EngineInit
    /\ StoreInit
    /\ UnitIdle
    /\ PlanIdle
    /\ r_repos = EngineRepos
    /\ r_names = <<>>
    /\ r_pkgs = <<>>
    /\ r_st = [queue |-> <<>>, handled |-> EmptyHandled, err |-> ""]
    /\ r_pc = "done"
    /\ dl_jobs \in (SUBSET DlJobs) \ {{}}
    /\ dl_task = [j \in DlJobs |-> "none"]
    /\ dl_closure = [j \in DlJobs |-> "none"]
    /\ dl_finalized = [j \in DlJobs |-> 0]
    /\ dl_call = [pc |-> "enter", aborted |-> FALSE, results |-> {},
                  err |-> "", dropped_on |-> {}]

NextDl ==
    \/ DlSpawn
    \/ \E j \in DlJobs, ok \in BOOLEAN : DlDownloaded(j, ok)
    \/ \E j \in DlJobs, ok \in BOOLEAN : DlExtracted(j, ok)
    \/ \E j \in DlJobs : DlAwaited(j)
    \/ \E j \in DlJobs, ok \in BOOLEAN : DlFinalized(j, ok)
    \/ \E j \in DlJobs : DlCancelled(j)
    \/ \E j \in DlJobs : DlJoinNext(j)
    \/ \E j \in DlJobs : DlDrain(j)
    \/ \E removed \in BOOLEAN : DlReturn(removed)
    \/ DlRelease

SpecDl == InitDl /\ [][NextDl]_vars

\* ------------------------------------------ runs of one function or phase

\* everything but the run of one function is at rest
RestIdle ==
    /\ EngineInit
    /\ PlanIdle
    /\ DlIdle
    /\ r_repos = EngineRepos
    /\ r_names = <<>>
    /\ r_pkgs = <<>>
    /\ r_st = [queue |-> <<>>, handled |-> EmptyHandled, err |-> ""]
    /\ r_pc = "done"
    /\ StoreInit

\* two packages to install with different names, their tasks spawned
InitTp ==
    /\ RestIdle
    /\ u_in \in {l \in [1..2 -> TpPkgs] : l[1].name # l[2].name}
    /\ u_out = [at |-> <<1, 1>>, failed |-> FALSE, touched |-> {}, fs |-> {}]
    /\ u_pc = "running"

NextTp == \E p \in {1, 2} : TpStep(p)

SpecTp == InitTp /\ [][NextTp]_vars

InitEx ==
    /\ RestIdle
    /\ u_in \in [archive : ExArchives, files : ExFiles]
    /\ u_out = <<>>
    /\ u_pc = "input"

NextEx == Extract

SpecEx == InitEx /\ [][NextEx]_vars

InitGh ==
    /\ RestIdle
    /\ u_in \in [release : GhReleases, asset_pattern : GhPatterns,
                 version : GitHubVersionExtraction]
    /\ u_out = <<>>
    /\ u_pc = "release"

NextGh == GitHubFetchInfos

SpecGh == InitGh /\ [][NextGh]_vars

InitFi ==
    /\ RestIdle
    /\ u_in \in FiPkgs
    /\ u_out = [task |-> [i \in DOMAIN u_in |-> "running"], ready |-> <<>>,
                results |-> <<>>, classified |-> <<>>, err |-> <<>>]
    /\ u_pc = "joining"

NextFi ==
    \/ \E i \in 1..MaxFetch, ok \in BOOLEAN : FiComplete(i, ok)
    \/ FiJoinNext
    \/ \E i \in 1..MaxFetch : FiAborted(i)
    \/ FiDrain

SpecFi == InitFi /\ [][NextFi]_vars

\* install/downloader.rs:107-124: the file is created empty and the
\* response arrives
InitDa ==
    /\ RestIdle
    /\ u_in \in DaBodies
    /\ u_out = [file |-> <<>>, next |-> 1]
    /\ u_pc = "streaming"

NextDa ==
    \/ \E n \in 1..MaxChunkLen, ok \in BOOLEAN : DaWrite(n, ok)
    \/ \E ok \in BOOLEAN : DaFlush(ok)

SpecDa == InitDa /\ [][NextDa]_vars

\* ------------------------------------------------- runs of the store alone

NextDb ==
    \/ \E n \in StoreNames, v \in 0..MaxVersion : DbUpdate(n, v)
    \/ \E ok \in BOOLEAN : Truncate(ok)
    \/ \E ok \in BOOLEAN : WriteChunk(ok)
    \/ WriteEnd
    \/ Interrupt
    \/ OpenDb

SpecDb == Init /\ [][NextDb]_vars

\* ------------------------------------------- runs of the repository commands

NextIngest ==
    \/ \E location \in Locations,
          file \in RepoFiles \cup CyclicFiles \cup {NoRepoFile} :
           AddRepo(location, file)
    \/ \E files \in [RepoNames -> RepoFiles \cup CyclicFiles \cup {NoRepoFile}] :
           UpdateRepos(files)
    \/ \E names \in (SUBSET RepoNames) \ {{}} : RemoveRepos(names)
    \/ Exit

SpecIngest == Init /\ [][NextIngest]_vars

\* ----------------------------------------------------------- resolver runs

ResolverNames == {"A", "B", "C"}

DepLists(targets) == SeqsOf(targets, 0, MaxDeps)

\* a package that a repository may hold or not
Optional(n, targets) ==
    {<<>>} \cup {n :> Manifest(n, deps, <<>>) : deps \in DepLists(targets)}

\* the repositories of the resolver runs.  r1 holds A, and B and C or not;
\* A depends on B and C, B on C, C on A (a cycle), each or not, in any order.
\* r2 is empty, or holds a C or a B of its own
ResolverRepos ==
    LET r1s == {("A" :> Manifest("A", deps, <<>>)) @@ b @@ c :
                    deps \in DepLists({"B", "C"}),
                    b \in Optional("B", {"C"}), c \in Optional("C", {"A"})}
        r2s == { <<>>,
                 "C" :> Manifest("C", <<>>, <<>>),
                 "B" :> Manifest("B", <<>>, <<>>),
                 ("B" :> Manifest("B", <<"C">>, <<>>))
                     @@ ("C" :> Manifest("C", <<>>, <<>>)) }
    IN {("r1" :> r1) @@ ("r2" :> r2) : r1 \in r1s, r2 \in r2s}

InitResolve ==
    /\ EngineInit
    /\ StoreInit
    /\ UnitIdle
    /\ DlIdle
    /\ PlanIdle
    /\ r_repos \in ResolverRepos
    /\ r_names \in SeqsOf(ResolverNames, 0, MaxNames)
    /\ r_pkgs = <<>>
    /\ r_st = [queue |-> <<>>, handled |-> EmptyHandled, err |-> ""]
    /\ r_pc = "start"

\* resolver.rs:59-64, 77: the requested names are resolved and queued
ResolveRequested ==
    /\ r_pc = "start"
    /\ LET req == resolve_pkgs_by_name(r_names, r_repos) IN
       IF req.err # ""
       THEN /\ r_pc' = "failed"
            /\ r_st' = [r_st EXCEPT !.err = req.err]
            /\ r_pkgs' = r_pkgs
       ELSE /\ r_pc' = "loop"
            /\ r_st' = [queue |-> req.pkgs, handled |-> EmptyHandled, err |-> ""]
            /\ r_pkgs' = req.pkgs
    /\ UNCHANGED <<r_repos, r_names>>
    /\ UNCHANGED <<engine_vars, store_vars, plan_vars, dl_vars, unit_vars>>

\* resolver.rs:85-138: one iteration of the while loop
ResolveStep ==
    /\ r_pc = "loop"
    /\ r_st.queue # <<>>
    /\ r_st' = ResolveIter(r_st, r_pkgs, r_repos)
    /\ r_pc' = IF r_st'.err # "" THEN "failed" ELSE "loop"
    /\ UNCHANGED <<r_repos, r_names, r_pkgs>>
    /\ UNCHANGED <<engine_vars, store_vars, plan_vars, dl_vars, unit_vars>>

\* resolver.rs:141: the queue is empty, the handled packages are returned
ResolveReturn ==
    /\ r_pc = "loop"
    /\ r_st.queue = <<>>
    /\ r_pc' = "done"
    /\ UNCHANGED <<r_repos, r_names, r_pkgs, r_st>>
    /\ UNCHANGED <<engine_vars, store_vars, plan_vars, dl_vars, unit_vars>>

NextResolve ==
    \/ ResolveRequested
    \/ ResolveStep
    \/ ResolveReturn

SpecResolve == InitResolve /\ [][NextResolve]_vars

\* ------------------------------------ the resolver on circular dependencies

\* one repository whose packages A, B and C depend on any of the three,
\* themselves included
CyclicRepos ==
    {"r1" :> [n \in ResolverNames |-> Manifest(n, deps[n], <<>>)] :
        deps \in [ResolverNames -> DepLists(ResolverNames)]}

\* the requests of these runs: any of the three names, in name order
CyclicRequests == {Sorted(S, NameOrder) : S \in SUBSET ResolverNames}

InitCyclic ==
    /\ EngineInit
    /\ StoreInit
    /\ UnitIdle
    /\ DlIdle
    /\ PlanIdle
    /\ r_repos \in CyclicRepos
    /\ r_names \in CyclicRequests
    /\ r_pkgs = <<>>
    /\ r_st = [queue |-> <<>>, handled |-> EmptyHandled, err |-> ""]
    /\ r_pc = "start"

\* the resolver is sequential code: it takes its next step until it returns
SpecCyclic == InitCyclic /\ [][NextResolve]_vars /\ WF_vars(NextResolve)

\* ------------------------------------------------------------------ claims

\* the files of a directory
FilesIn(dir) == {f \in DOMAIN dir : IsFile(dir, f)}

\* an install or update command (`install --force` is the reinstall) has
\* just returned success
InstalledOk ==
    /\ pc = "done"
    /\ prev.kind \in {"install", "update"}
    /\ prev.result = "ok"

\* C1: starting from an empty database, whatever commands have run, no two
\* distinct installed records list the same binary filename.
C1_NoSharedBinary ==
    \A p, q \in DOMAIN db :
        p # q => Range(db[p].binaries) \cap Range(db[q].binaries) = {}

\* an install was refused for a binary an installed package owns, and two
\* packages with binaries are installed
C1_Witness ==
    /\ pc = "done"
    /\ prev.kind = "install"
    /\ prev.err = "BinaryCollision"
    /\ \E p, q \in DOMAIN db :
          p # q /\ db[p].binaries # <<>> /\ db[q].binaries # <<>>

\* C2: a command that returns an error without having reached its Db::update
\* leaves the database on disk as it was when the command started.
C2_FailureKeepsDb ==
    [][(pc' = "done" /\ prev'.result = "err" /\ prev'.writes = 0)
          => db' = (IF pc = "idle" THEN db ELSE cmd.pre_db)]_vars

\* a command failed after it had copied or deleted a binary, with packages
\* installed
C2_Witness ==
    /\ pc = "done"
    /\ prev.result = "err"
    /\ prev.err = "FilesystemError"
    /\ prev.copied + prev.deleted > 0
    /\ db # EmptyDb

\* C3: right after a successful install, update or reinstall, every binary
\* of every record the command wrote is a file of bin_dir, and executable.
C3_BinariesExist ==
    InstalledOk =>
        \A n \in prev.planned : \A b \in Range(db[n].binaries) :
            IsFile(bin_dir, b) /\ bin_dir[b].exec

\* a successful reinstall or update of a package one of whose binaries was
\* not in bin_dir when the command started is over
C3_Witness ==
    /\ InstalledOk
    /\ prev.writes = 1
    /\ \E n \in prev.planned : \E b \in Range(db[n].binaries) :
          ~IsFile(bin_dir, b)

\* C4: the copy step copies every extracted binary of every to-install
\* package, those the package's record already lists included; so after a
\* successful update every binary of an updated package holds the content
\* of the asset just downloaded.
C4_EveryBinaryCopied ==
    /\ pc = "copy" => Len(cmd.flattened) = Len(AllExtracted(cmd.extracted))
    /\ (pc = "done" /\ prev.kind = "update" /\ prev.result = "ok") =>
          \A n \in prev.planned : \A b \in Range(db[n].binaries) :
              /\ bin_dir[b].pkg = n
              /\ bin_dir[b].version = db[n].version

\* C5: a successful `install X` of a package that was not installed, then
\* a successful `uninstall X`, leave the installed records and the files of
\* bin_dir as they were before the install, and no temporary directory.
C5_InstallUninstall ==
    ( /\ pc = "done"
      /\ prev.kind = "uninstall"
      /\ prev.result = "ok"
      /\ ~prev.declined
      /\ prev.chain.name # "" )
    => /\ db = prev.chain.pre_db
       /\ FilesIn(bin_dir) = FilesIn(prev.chain.pre_bin)
       /\ ~tmp_dir

\* a confirmed `uninstall X` returned success right after a successful
\* `install X`
C5_Witness ==
    /\ pc = "done"
    /\ prev.kind = "uninstall"
    /\ prev.result = "ok"
    /\ ~prev.declined
    /\ prev.chain.name # ""

\* the resolved packages of an `install names` that are not dependencies
\* are all installed
AllRequestedInstalled(names) ==
    LET res == resolve_pkgs_by_name_with_deps(names, Registered) IN
    /\ res.err = ""
    /\ \A i \in DOMAIN res.pkgs :
          ~res.pkgs[i].is_dep => res.pkgs[i].manifest.name \in DOMAIN db

\* the phases of an `install names` under Ignore whose fetch_info calls,
\* if it makes any, fail
PhasesOffline(names) ==
    compute_install_phases(
        resolve_pkgs_by_name_with_deps(names, Registered).pkgs,
        InstallPolicy(FALSE, FALSE), db, FALSE, remote)

\* C6: under the policy Ignore, when the resolved packages that are not
\* dependencies are all installed, the planning makes no fetch_info call
\* and returns nothing to install; and an `install X` issued right after a
\* successful `install X` returns success with nothing fetched, downloaded,
\* copied or written, the database and bin_dir unchanged.
C6_InstallAgainNoOp ==
    /\ [](pc = "idle" =>
            \A names \in SeqsOf(DOMAIN db, 1, MaxNames) :
                AllRequestedInstalled(names) =>
                    LET phases == PhasesOffline(names) IN
                    /\ phases.err = ""
                    /\ phases.fetched = <<>>
                    /\ ToInstall(phases) = <<>>)
    /\ [][(/\ pc = "idle"
           /\ prev.snap.name # ""
           /\ \/ pc' = "done" /\ prev'.kind = "install"
              \/ cmd'.kind = "install" /\ cmd'.single = prev.snap.name
           /\ Install(<<prev.snap.name>>, FALSE, FALSE))
          => /\ pc' = "done"
             /\ prev'.result = "ok"
             /\ prev'.fetched = 0
             /\ prev'.planned = {}
             /\ ~prev'.tmp_made /\ prev'.copied = 0 /\ prev'.writes = 0
             /\ db' = db /\ bin_dir' = bin_dir /\ tmp_dir' = tmp_dir]_vars

\* an install under Ignore found a package with a dependency installed and
\* returned without a fetch
C6_Witness ==
    /\ pc = "done"
    /\ prev.kind = "install"
    /\ prev.policy = "Ignore"
    /\ prev.result = "ok"
    /\ prev.fetched = 0
    /\ {"A", "B"} \subseteq DOMAIN db

\* some requested name is a dependency of an installed package that is not
\* requested
HasOutsideDependent(names) ==
    \E n \in Range(names), m \in DOMAIN db :
        /\ n \in Range(db[m].manifest.depends_on)
        /\ m \notin Range(names)

\* an uninstall that fails with WouldBreakDependents does so in its first
\* step: no prompt, no deletion, no database change
WouldBreakFailsFirst ==
    (pc' = "done" /\ prev'.kind = "uninstall"
        /\ prev'.err = "WouldBreakDependents")
    => /\ pc = "idle"
       /\ prev'.result = "err"
       /\ ~prev'.asked /\ prev'.deleted = 0 /\ prev'.writes = 0
       /\ db' = db /\ bin_dir' = bin_dir /\ tmp_dir' = tmp_dir

\* C7 as stated: an uninstall fails with WouldBreakDependents, before any
\* prompt, deletion or database change, if and only if some requested
\* package has an installed dependent that is not requested.
C7_WouldBreakIff ==
    /\ [](pc = "idle" =>
            \A names \in Requests(1), deps \in BOOLEAN :
                UninstallPlan(names, deps, db).err = "WouldBreakDependents"
                    <=> HasOutsideDependent(names))
    /\ [][WouldBreakFailsFirst]_vars

\* C7 amended: the same, for an uninstall whose requested names are all
\* installed.
C7_WouldBreakIffInstalled ==
    /\ [](pc = "idle" =>
            \A names \in Requests(1), deps \in BOOLEAN :
                Range(names) \subseteq DOMAIN db =>
                    (UninstallPlan(names, deps, db).err = "WouldBreakDependents"
                        <=> HasOutsideDependent(names)))
    /\ [][WouldBreakFailsFirst]_vars

\* an uninstall was refused with WouldBreakDependents
C7_Witness ==
    /\ pc = "done"
    /\ prev.kind = "uninstall"
    /\ prev.err = "WouldBreakDependents"
    /\ DOMAIN db # {}

\* a confirmed uninstall whose deletions all succeeded has returned
UninstalledAll ==
    /\ pc = "done"
    /\ prev.kind = "uninstall"
    /\ prev.asked /\ ~prev.declined
    /\ prev.result \in {"ok", "panic"}

\* C8: a confirmed uninstall whose deletions all succeed does not panic,
\* every package of the removal set has its binaries deleted and its record
\* removed, and the database is written exactly once.
C8_UninstallRemovesAll ==
    UninstalledAll =>
        /\ prev.result = "ok"
        /\ prev.writes = 1
        /\ \A n \in prev.removal :
              /\ n \notin DOMAIN db
              /\ \A b \in Range(Registered["r1"][n].bins) : ~IsFile(bin_dir, b)

\* a confirmed uninstall of one package or more deleted every binary
C8_Witness ==
    /\ UninstalledAll
    /\ prev.removal # {}

\* C9: a declined confirmation makes the command return an error (exit
\* code 1), and the database, bin_dir and the temporary directory are as the
\* command found them.
C9_DeclineIsError ==
    [][(pc' = "done" /\ prev'.declined)
          => /\ prev'.result = "err"
             /\ db' = cmd.pre_db
             /\ bin_dir' = cmd.pre_bin
             /\ ~tmp_dir']_vars

\* a confirmation was declined
C9_Witness ==
    /\ pc = "done"
    /\ prev.declined

\* the result of a resolver run
Resolved == HandledValues(r_st.handled)

\* C10: when resolve_pkgs_by_name_with_deps succeeds, its result has at most
\* one entry per name, holds every requested package, holds the dependencies
\* of each of its entries, and an entry is a dependency (is_dep) exactly
\* when its name was not requested.
C10_ResolvedClosure ==
    r_pc = "done" =>
        /\ \A i, j \in DOMAIN Resolved :
              Resolved[i].manifest.name = Resolved[j].manifest.name => i = j
        /\ \A n \in Range(r_names) :
              \E i \in DOMAIN Resolved : Resolved[i].manifest.name = n
        /\ \A i \in DOMAIN Resolved :
              \A d \in Range(Resolved[i].manifest.depends_on) :
                  \E j \in DOMAIN Resolved : Resolved[j].manifest.name = d
        /\ \A i \in DOMAIN Resolved :
              ~Resolved[i].is_dep <=> Resolved[i].manifest.name \in Range(r_names)
        /\ resolve_pkgs_by_name_with_deps(r_names, r_repos) =
              [err |-> "", pkgs |-> Resolved]

\* A -> B -> C resolved from the request of A alone
C10_Witness ==
    /\ r_pc = "done"
    /\ r_names = <<"A">>
    /\ Len(Resolved) = 3
    /\ \E i \in DOMAIN Resolved :
          Resolved[i].manifest.name = "C" /\ Resolved[i].is_dep

\* the (package name, repository) pairs of a list of resolved packages
Pairs(pkgs) == {<<pkgs[i].manifest.name, pkgs[i].repo>> : i \in DOMAIN pkgs}

\* the names of the result of a resolver run, resolved again
ResolvedAgain ==
    resolve_pkgs_by_name_with_deps(
        [i \in DOMAIN Resolved |-> Resolved[i].manifest.name], r_repos)

\* C11 as stated: when the resolution of the requested names succeeds,
\* resolving the names of the returned packages succeeds too and returns
\* the same (package name, repository) pairs.
C11_ResolveIdempotent ==
    r_pc = "done" =>
        /\ ResolvedAgain.err = ""
        /\ Pairs(ResolvedAgain.pkgs) = Pairs(Resolved)

\* C11 amended: the same, when no name of a returned package is held by two
\* repositories.
C11_ResolveIdempotentUnique ==
    ( /\ r_pc = "done"
      /\ \A i \in DOMAIN Resolved :
            Cardinality(Candidates(Resolved[i].manifest.name, r_repos)) = 1 )
    => /\ ResolvedAgain.err = ""
       /\ Pairs(ResolvedAgain.pkgs) = Pairs(Resolved)

\* a run returned A with its dependencies B and C, each held by one
\* repository
C11_Witness ==
    /\ r_pc = "done"
    /\ r_names = <<"A">>
    /\ Len(Resolved) = 3
    /\ \A i \in DOMAIN Resolved :
          Cardinality(Candidates(Resolved[i].manifest.name, r_repos)) = 1

\* the repositories of the run holding a package of this name
Holders(n) == {r \in DOMAIN r_repos : n \in DOMAIN r_repos[r]}

\* the requested names that exactly one repository does not hold, in the
\* order of the request
Unresolvable == SelectSeq(r_names, LAMBDA n : Cardinality(Holders(n)) # 1)

\* C12: a requested name resolves if and only if exactly one repository
\* holds a package of that name, to that package; the call fails with
\* PackageNotFound when no repository holds it and with AmbiguousPackage
\* when several do, and then it returns no package at all.
C12_ExactlyOneRepository ==
    r_pc # "start" =>
        /\ r_st.err \in {"PackageNotFound", "AmbiguousPackage"}
              <=> Unresolvable # <<>>
        /\ Unresolvable # <<>> =>
              /\ r_pc = "failed"
              /\ r_pkgs = <<>> /\ Resolved = <<>>
              /\ r_st.err = (IF Holders(Unresolvable[1]) = {}
                             THEN "PackageNotFound" ELSE "AmbiguousPackage")
        /\ Unresolvable = <<>> =>
              /\ Len(r_pkgs) = Len(r_names)
              /\ \A i \in DOMAIN r_names :
                    /\ Holders(r_names[i]) = {r_pkgs[i].repo}
                    /\ r_pkgs[i].manifest = r_repos[r_pkgs[i].repo][r_names[i]]

\* a call failed on its second name, which two repositories hold
C12_Witness ==
    /\ r_pc = "failed"
    /\ r_st.err = "AmbiguousPackage"
    /\ Len(r_names) = 2
    /\ Cardinality(Holders(r_names[1])) = 1
    /\ Cardinality(Holders(r_names[2])) = 2

\* an installed record whose repository is no longer registered, or whose
\* manifest its repository no longer holds
Orphaned(n) ==
    \/ db[n].repo_name \notin DOMAIN repositories
    \/ n \notin DOMAIN Registered[db[n].repo_name]

\* C13: an orphaned installed package is reported as OrphanedInstall for
\* that package only and does not abort a batch operation: `update` of
\* every package, `repair` of every package and `uninstall` of a package
\* that is not orphaned itself never end with the error OrphanedInstall
C13_OrphanKeepsBatchGoing ==
    [][/\ (Update(<<>>, FALSE) \/ Repair(<<>>))
            => prev'.err # "OrphanedInstall"
       /\ \A n \in RepoPkgs :
            (Uninstall(<<n>>, FALSE) /\ n \in DOMAIN db /\ ~Orphaned(n))
                => prev'.err # "OrphanedInstall"]_vars

\* the names of a list of resolved packages
NamesOf(pkgs) == {pkgs[i].manifest.name : i \in DOMAIN pkgs}

\* every binary the record of n lists is a file of the binaries directory
BinariesPresent(n) == \A b \in Range(db[n].binaries) : IsFile(bin_dir, b)

\* C14: `repair` selects exactly the installed packages with a recorded
\* binary missing and reinstalls them under the policy Reinstall: a repair
\* that the user confirmed either fails or reinstalls every selected
\* package, dependency or not, version changed or not, and once it has
\* written the database every recorded binary of every package it
\* reinstalled is a file of the binaries directory
C14_RepairRestores ==
    /\ [](pc = "r_confirm" =>
            /\ cmd.policy = "Reinstall"
            /\ NamesOf(cmd.resolved) # {}
            /\ \A n \in NamesOf(cmd.resolved) : ~BinariesPresent(n))
    /\ []((pc = "cleanup" /\ cmd.kind = "repair") =>
            \A i \in DOMAIN cmd.to_install :
                BinariesPresent(cmd.to_install[i].pkg.manifest.name))
    /\ [][/\ (Repair(<<>>) /\ pc' = "r_confirm") =>
                NamesOf(cmd'.resolved) =
                    {n \in DOMAIN db : ~BinariesPresent(n)}
          /\ (pc = "fetching" /\ cmd.kind = "repair" /\ pc' = "done") =>
                prev'.result = "err"
          /\ (pc = "fetching" /\ cmd.kind = "repair" /\ pc' # "done") =>
                NamesOf([i \in DOMAIN cmd'.to_install |->
                            cmd'.to_install[i].pkg]) = NamesOf(cmd.resolved)]_vars

\* C15: the database commit of install_pkgs keeps the installed_as_dep of
\* a record that exists and gives the is_dep of the request to a new record
\* only: no step changes the installed_as_dep of a package that stays
\* installed, and a record appears only in that commit, with the is_dep of
\* the extracted package it is written for
C15_InstalledAsDepKept ==
    [][/\ \A n \in DOMAIN db \cap DOMAIN db' :
              db'[n].installed_as_dep = db[n].installed_as_dep
       /\ \A n \in DOMAIN db' \ DOMAIN db :
              /\ pc = "copy"
              /\ \E i \in DOMAIN cmd.extracted :
                    /\ cmd.extracted[i].manifest.name = n
                    /\ db'[n].installed_as_dep = cmd.extracted[i].is_dep]_vars

\* B, installed as a dependency, was reinstalled on its own by
\* `install --force B` and its record was written again
C15_Witness ==
    /\ pc = "cleanup"
    /\ cmd.kind = "install"
    /\ cmd.policy = "Reinstall"
    /\ cmd.single = "B"
    /\ "B" \in DOMAIN cmd.pre_db
    /\ cmd.pre_db["B"].installed_as_dep
    /\ \E i \in DOMAIN cmd.extracted :
          cmd.extracted[i].manifest.name = "B" /\ ~cmd.extracted[i].is_dep
    /\ db["B"].installed_as_dep

Policies == {"Ignore", "CheckUpdates", "Update", "Reinstall"}

\* some resolved package has the name of an installed package that was
\* installed from another repository
Migrating(pkgs) ==
    \E i \in DOMAIN pkgs :
        /\ pkgs[i].manifest.name \in DOMAIN db
        /\ db[pkgs[i].manifest.name].repo_name # pkgs[i].repo

\* C16: under every policy, planning fails with RepositoryMigration exactly
\* when some resolved package has the name of an installed package whose
\* repo_name is another repository's, and it does before any fetch_info
\* call and without changing the disk
C16_MigrationRefused ==
    /\ [](pc = "idle" =>
            \A names \in RepoRequests, policy \in Policies, ok \in BOOLEAN :
                LET res == resolve_pkgs_by_name_with_deps(names, Registered)
                    phases == compute_install_phases(res.pkgs, policy, db,
                                                     ok, remote)
                IN res.err = "" =>
                     /\ phases.err = "RepositoryMigration" <=> Migrating(res.pkgs)
                     /\ Migrating(res.pkgs) =>
                          /\ ~ReachesFetch(res.pkgs, policy, db)
                          /\ phases.fetched = <<>>)
    /\ [][/\ \A names \in RepoRequests :
                LET res == resolve_pkgs_by_name_with_deps(names, Registered) IN
                (Install(names, FALSE, FALSE) /\ res.err = "") =>
                    (prev'.err = "RepositoryMigration" <=> Migrating(res.pkgs))
          /\ (pc' = "done" /\ prev'.err = "RepositoryMigration") =>
                /\ pc = "idle"
                /\ prev'.fetched = 0
                /\ prev'.writes = 0
                /\ ~prev'.tmp_made
                /\ UNCHANGED <<repositories, db, bin_dir, tmp_dir>>]_vars

\* D is installed from r1, r1 is no longer registered, r2 holds a D too,
\* and `install D` just failed with RepositoryMigration
C16_Witness ==
    /\ pc = "done"
    /\ prev.kind = "install"
    /\ prev.err = "RepositoryMigration"
    /\ "D" \in DOMAIN db
    /\ db["D"].repo_name = "r1"
    /\ DOMAIN repositories = {"r2"}
    /\ "D" \in DOMAIN Registered["r2"]

\* the names of a bucket of the phases
BucketNames(bucket) == {bucket[i].pkg.manifest.name : i \in DOMAIN bucket}

\* the version the upstream of n publishes is the recorded one
UpToDate(n) == remote[n] = db[n].version

\* C17: under Update and CheckUpdates an installed package is up to date
\* (no_update_needed) exactly when its fetched version equals the recorded
\* one, and is otherwise to update (Update) or reported (CheckUpdates); an
\* `update` that finds every package up to date downloads nothing, copies
\* nothing and leaves the database as it was
C17_UpToDateIffSameVersion ==
    /\ []((pc = "fetching" /\ cmd.policy \in {"Update", "CheckUpdates"}) =>
            LET phases == compute_install_phases(cmd.resolved, cmd.policy,
                                                 db, TRUE, remote)
            IN \A n \in NamesOf(cmd.resolved) \cap DOMAIN db :
                  /\ n \in BucketNames(phases.no_update_needed) <=> UpToDate(n)
                  /\ ~UpToDate(n) =>
                        IF cmd.policy = "Update"
                        THEN n \in BucketNames(phases.needs_updating)
                        ELSE /\ n \in BucketNames(phases.update_available)
                             /\ n \notin BucketNames(ToInstall(phases)))
    /\ [][(/\ pc = "fetching"
           /\ cmd.kind = "update"
           /\ cmd.policy = "Update"
           /\ prev'.err # "NetworkFailure"
           /\ \A n \in NamesOf(cmd.resolved) : UpToDate(n)) =>
                /\ pc' = "done"
                /\ prev'.result = "ok"
                /\ prev'.planned = {}
                /\ ~prev'.tmp_made
                /\ prev'.copied = 0
                /\ prev'.writes = 0
                /\ UNCHANGED <<db, bin_dir, tmp_dir>>]_vars

\* an `update` of A and B, both installed and up to date, just ended
C17_Witness ==
    /\ pc = "done"
    /\ prev.kind = "update"
    /\ prev.policy = "Update"
    /\ prev.result = "ok"
    /\ prev.fetched = 2
    /\ prev.planned = {}
    /\ {"A", "B"} \subseteq DOMAIN db
    /\ UpToDate("A")
    /\ remote["A"] > 1

\* the extraction of a package yielded two binaries of the same name
DuplicateBinary(pkg) ==
    \E i, j \in DOMAIN pkg.binaries :
        i # j /\ pkg.binaries[i].name = pkg.binaries[j].name

\* C18: when the extraction of one package yields two binaries of the same
\* name, the install fails with BinaryCollision at the collision check,
\* before any copy and without a change of the database
C18_DuplicateBinaryRefused ==
    [][(/\ pc = "collision"
        /\ \E i \in DOMAIN cmd.extracted : DuplicateBinary(cmd.extracted[i])) =>
            /\ pc' = "done"
            /\ prev'.err = "BinaryCollision"
            /\ prev'.copied = 0
            /\ prev'.writes = 0
            /\ UNCHANGED <<db, bin_dir>>]_vars

\* C19: the database commit is atomic: at every point, a failure or an
\* interruption in the middle of the write of Db::update included, the
\* database file holds the complete state from before the update or the
\* complete state after it, and once Db::update has returned Ok the file
\* holds the state in memory
C19_AtomicCommit ==
    /\ LoadDb(db_file).ok
    /\ LoadDb(db_file).data \in {st_pre, db_data}
    /\ (st_pc = "open" => LoadDb(db_file).data = db_data)

\* every package is held under its own name and depends on packages of the
\* same repository only
WellFormed(packages) ==
    \A k \in DOMAIN packages :
        /\ packages[k].name = k
        /\ Range(packages[k].depends_on) \subseteq DOMAIN packages

\* the files read by `update-repos`, one for each registered repository
FilesRead(files) ==
    [r \in RepoNames |-> IF r \in DOMAIN files THEN files[r] ELSE NoRepoFile]

\* C20: every repository that add-repo or update-repos accepts holds each
\* package under its own name and every dependency of each package; a
\* repository file that does not is rejected and the database is left as it
\* was
C20_AcceptedRepositoriesValid ==
    /\ [](\A r \in DOMAIN repositories : WellFormed(repositories[r].content))
    /\ [][/\ (pc = "idle" /\ prev'.kind = "add-repo") =>
                \A location \in Locations, file \in RepoFiles :
                    (/\ ~WellFormed(file.packages)
                     /\ \A r \in DOMAIN repositories :
                            repositories[r].location # location
                     /\ AddRepo(location, file)) =>
                        /\ prev'.result = "err"
                        /\ prev'.err = "InvalidRepository"
                        /\ prev'.writes = 0
                        /\ UNCHANGED <<repositories, db>>
          /\ (pc = "idle" /\ prev'.kind = "update-repos") =>
                \A files \in [DOMAIN repositories -> RepoFiles \cup {NoRepoFile}] :
                    (/\ \E r \in DOMAIN files :
                           /\ files[r] # NoRepoFile
                           /\ ~WellFormed(files[r].packages)
                     /\ UpdateRepos(FilesRead(files))) =>
                        /\ prev'.result = "err"
                        /\ prev'.writes = 0
                        /\ UNCHANGED <<repositories, db>>
          /\ (pc = "idle" /\ pc' = "done" /\ repositories' # repositories
                /\ prev'.kind \in {"add-repo", "update-repos"}) =>
                \A r \in DOMAIN repositories' :
                    WellFormed(repositories'[r].content)]_vars

\* r2 was accepted, and `add-repo` of a repository file that holds a package
\* under another name, or lacks a dependency, was just rejected
C20_Witness ==
    /\ pc = "done"
    /\ prev.kind = "add-repo"
    /\ prev.err = "InvalidRepository"
    /\ "r2" \in DOMAIN repositories
    /\ repositories["r2"].content # <<>>

\* the packages that n reaches through depends_on in at most k steps
RECURSIVE Reaches(_, _, _)
Reaches(packages, from, k) ==
    IF k = 0 THEN {}
    ELSE LET next == UNION {Range(packages[n].depends_on) \cap DOMAIN packages :
                               n \in from}
         IN next \cup Reaches(packages, next, k - 1)

\* no package reaches itself through depends_on
Acyclic(packages) ==
    \A n \in DOMAIN packages :
        n \notin Reaches(packages, {n}, Cardinality(DOMAIN packages))

\* C21: every repository that is ingested successfully has an acyclic
\* dependency graph: no registered repository holds a package that reaches
\* itself through depends_on, a package that depends on itself included
C21_RegisteredAcyclic ==
    \A r \in DOMAIN repositories : Acyclic(repositories[r].content)

InstallKinds == {"install", "update", "repair"}

\* C23: in install_pkgs the collision check runs once every package is
\* extracted and ends before the first copy into the binaries directory,
\* and every copy ends before the single database update; when the check
\* fails (A, installed, owns a binary that D yields too) no file was copied
\* and the database is as the command found it
C23_CheckThenCopyThenCommit ==
    [][/\ (pc # "collision" /\ pc' = "collision") =>
            /\ Len(cmd'.extracted) = Len(cmd'.to_install)
            /\ cmd'.copied = 0
            /\ bin_dir' = cmd'.pre_bin
       /\ (cmd.kind \in InstallKinds /\ bin_dir' # bin_dir) =>
            /\ pc = "copy"
            /\ CheckCollisions(db, cmd.extracted).err = ""
            /\ cmd.writes = 0
            /\ db = cmd.pre_db
       /\ (cmd.kind \in InstallKinds /\ db' # db) =>
            /\ pc = "copy"
            /\ cmd.copied = Len(cmd.flattened)
            /\ cmd.writes = 0
            /\ cmd'.writes = 1
       /\ (pc = "collision" /\ pc' = "done") =>
            /\ prev'.err = "BinaryCollision"
            /\ prev'.copied = 0
            /\ prev'.writes = 0
            /\ db' = cmd.pre_db
            /\ bin_dir' = cmd.pre_bin]_vars

\* A is installed and owns the binary a; `install D`, whose asset yields a
\* and d, just failed at the collision check
C23_Witness ==
    /\ pc = "done"
    /\ prev.kind = "install"
    /\ prev.err = "BinaryCollision"
    /\ "A" \in DOMAIN db
    /\ "D" \notin DOMAIN db
    /\ "a" \in Range(db["A"].binaries)
    /\ ~IsFile(bin_dir, "d")

BucketIds ==
    {"already_installed", "already_installed_deps", "no_update_needed",
     "update_available", "missing_pkgs", "missing_deps", "needs_updating",
     "reinstall"}

\* the buckets of the planner run that hold the package named n
BucketsOf(n) == {b \in BucketIds : n \in BucketNames(p_phases[b])}

\* the planner run ended without an error
PlanSucceeded == p_pc = "planned" /\ p_pkgs # <<>> /\ p_phases.err = ""

\* C24: whenever planning succeeds, every resolved package is in exactly
\* one bucket, as many times as it was resolved; an installed package is in already_installed_deps or
\* already_installed (by is_dep) under Ignore, in no_update_needed or
\* update_available (by equality of the fetched and installed versions)
\* under CheckUpdates, in no_update_needed or needs_updating under Update,
\* and under Reinstall in already_installed_deps when it is a dependency
\* of unchanged version, else in reinstall
C24_OneBucketEach ==
    PlanSucceeded =>
        \A i \in DOMAIN p_pkgs :
            LET n == p_pkgs[i].manifest.name
                is_dep == p_pkgs[i].is_dep
                same == p_remote[n] = p_installed[n].version
                bucket ==
                    CASE p_policy = "Ignore" ->
                            IF is_dep THEN "already_installed_deps"
                            ELSE "already_installed"
                      [] p_policy = "CheckUpdates" ->
                            IF same THEN "no_update_needed"
                            ELSE "update_available"
                      [] p_policy = "Update" ->
                            IF same THEN "no_update_needed"
                            ELSE "needs_updating"
                      [] p_policy = "Reinstall" ->
                            IF is_dep /\ same THEN "already_installed_deps"
                            ELSE "reinstall"
            IN /\ Cardinality(BucketsOf(n)) = 1
               /\ Cardinality({j \in DOMAIN p_phases[CHOOSE b \in BucketsOf(n) : TRUE] :
                      p_phases[CHOOSE b \in BucketsOf(n) : TRUE][j].pkg.manifest.name = n})
                    = Cardinality({j \in DOMAIN p_pkgs : p_pkgs[j].manifest.name = n})
               /\ n \in DOMAIN p_installed => BucketsOf(n) = {bucket}

\* planning succeeded under Reinstall for A, requested and installed, and
\* B, an installed dependency whose version did not change
C24_Witness ==
    /\ PlanSucceeded
    /\ p_policy = "Reinstall"
    /\ Len(p_pkgs) = 2
    /\ p_pkgs[1].manifest.name = "A" /\ ~p_pkgs[1].is_dep
    /\ p_pkgs[2].manifest.name = "B" /\ p_pkgs[2].is_dep
    /\ DOMAIN p_installed = {"A", "B"}
    /\ p_remote["B"] = p_installed["B"].version
    /\ BucketsOf("A") = {"reinstall"}
    /\ BucketsOf("B") = {"already_installed_deps"}

\* the resolved packages of the planner run that are not installed
NotInstalled == {i \in DOMAIN p_pkgs : p_pkgs[i].manifest.name \notin DOMAIN p_installed}

\* the bucket of the table for a package that is not installed
MissingBucket(i) == IF p_pkgs[i].is_dep THEN "missing_deps" ELSE "missing_pkgs"

\* install/phases.rs:60-68: the policy is Ignore and every requested
\* package is installed
FastPath ==
    /\ p_policy = "Ignore"
    /\ \A i \in DOMAIN p_pkgs :
          ~p_pkgs[i].is_dep => p_pkgs[i].manifest.name \in DOMAIN p_installed

\* C25 as stated: whenever planning succeeds a resolved package that is not
\* installed is in missing_deps when it is a dependency and in missing_pkgs
\* when it is not, under every policy and whatever the other resolved
\* packages are, and it is to install
C25_MissingIsToInstall ==
    PlanSucceeded =>
        \A i \in NotInstalled :
            /\ BucketsOf(p_pkgs[i].manifest.name) = {MissingBucket(i)}
            /\ p_pkgs[i].manifest.name \in BucketNames(ToInstall(p_phases))

\* C25, amended: the same, except under Ignore when every requested
\* package is installed: then a dependency that is not installed is put in
\* already_installed_deps and nothing is to install
C25_MissingIsToInstallOffFastPath ==
    PlanSucceeded =>
        \A i \in NotInstalled :
            IF FastPath
            THEN /\ p_pkgs[i].is_dep
                 /\ BucketsOf(p_pkgs[i].manifest.name) = {"already_installed_deps"}
                 /\ ToInstall(p_phases) = <<>>
            ELSE /\ BucketsOf(p_pkgs[i].manifest.name) = {MissingBucket(i)}
                 /\ p_pkgs[i].manifest.name \in BucketNames(ToInstall(p_phases))

\* planning succeeded under Reinstall for a requested package that is
\* installed and a dependency that is not, which is in missing_deps
C25_Witness ==
    /\ PlanSucceeded
    /\ p_policy = "Reinstall"
    /\ Len(p_pkgs) = 2
    /\ ~p_pkgs[1].is_dep
    /\ p_pkgs[1].manifest.name \in DOMAIN p_installed
    /\ p_pkgs[2].is_dep
    /\ p_pkgs[2].manifest.name \notin DOMAIN p_installed
    /\ BucketsOf(p_pkgs[2].manifest.name) = {"missing_deps"}

\* C26: install_pkgs has asked for confirmation when it is about to start
\* its first download (the plan is made, something is to install), whenever
\* a dependency is to install or the policy is Update or Reinstall
C26_AskedBeforeDownload ==
    (/\ pc = "download"
     /\ cmd.to_install # <<>>
     /\ \/ \E i \in DOMAIN cmd.to_install : cmd.to_install[i].pkg.is_dep
        \/ cmd.policy \in {"Update", "Reinstall"})
        => cmd.asked

\* the installed packages whose recorded manifest depends on n
Dependents(n) == {m \in DOMAIN db : n \in Range(db[m].manifest.depends_on)}

\* S holds every package installed as a dependency, not requested, whose
\* installed dependents are all requested or in S
ClosedUnneeded(S, req) ==
    \A n \in DOMAIN db :
        (/\ db[n].installed_as_dep
         /\ n \notin req
         /\ Dependents(n) \subseteq (req \cup S)) => n \in S

\* the least such set
LeastUnneeded(req) ==
    {n \in DOMAIN db :
        \A S \in SUBSET DOMAIN db : ClosedUnneeded(S, req) => n \in S}

\* what the uninstall of names computes as no longer needed
NoLongerNeeded(names) ==
    compute_no_longer_needed_deps(
        InstalledValues(db), Range(names),
        build_pkgs_reverse_deps_map(
            [i \in DOMAIN InstalledValues(db) |-> InstalledValues(db)[i].manifest]))

\* C27: for every uninstall that gets to its prompt,
\* compute_no_longer_needed_deps returns, each package once, exactly the
\* least set of packages installed as dependencies, not requested, whose
\* installed dependents are all requested or in the set; the removal set
\* is the requested packages plus that set with --deps, and the requested
\* packages alone without it
C27_UnneededIsLeastFixedPoint ==
    pc = "idle" =>
        \A names \in UnRequests :
            LET out == NoLongerNeeded(names) IN
            UninstallPlan(names, TRUE, db).err = "" =>
                /\ {out[i].manifest.name : i \in DOMAIN out}
                       = LeastUnneeded(Range(names))
                /\ \A i, j \in DOMAIN out :
                       i # j => out[i].manifest.name # out[j].manifest.name
                /\ Range(UninstallPlan(names, TRUE, db).removal)
                       = Range(names) \cup LeastUnneeded(Range(names))
                /\ UninstallPlan(names, FALSE, db).removal = names

\* uninstall A --deps is at its prompt, about to remove A, B and D: B was
\* needed by A only, and D by B only
C27_Witness ==
    /\ pc = "u_confirm"
    /\ cmd.deps
    /\ cmd.removal = <<"A", "B", "D">>
    /\ Dependents("B") = {"A"}
    /\ Dependents("D") = {"B"}

\* some recorded binary of a package of the removal set is no regular file
\* of the binaries directory
MissingRecordedBinary ==
    \E n \in Range(cmd.removal) :
        \E b \in Range(db[n].binaries) : ~IsFile(bin_dir, b)

\* C28: when the user approves an uninstall while some recorded binary of
\* a package of the removal set is not a regular file of the binaries
\* directory, the command fails with BrokenInstall before it deletes any
\* file: the binaries directory and the database are as the command
\* found them
C28_BrokenInstallBeforeDeletion ==
    [][(/\ pc = "u_confirm"
        /\ MissingRecordedBinary
        /\ ~(pc' = "done" /\ prev'.declined))
          => /\ pc' = "done"
             /\ prev'.kind = "uninstall"
             /\ prev'.result = "err"
             /\ prev'.err = "BrokenInstall"
             /\ prev'.deleted = 0
             /\ prev'.writes = 0
             /\ bin_dir' = cmd.pre_bin
             /\ db' = cmd.pre_db]_vars

\* uninstall A --deps, approved, failed with BrokenInstall: the binary of
\* A is in place, the binary of its dependency B is not
C28_Witness ==
    /\ pc = "done"
    /\ prev.kind = "uninstall"
    /\ prev.err = "BrokenInstall"
    /\ prev.removal = {"A", "B"}
    /\ IsFile(bin_dir, "a")
    /\ ~IsFile(bin_dir, "b")
    /\ {"A", "B"} \subseteq DOMAIN db

\* the (name, repository) pairs S, with the dependencies that the
\* repository of each pair holds, and theirs
RECURSIVE ReachedFrom(_)
ReachedFrom(S) ==
    LET T == S \cup UNION {
                 {<<d, p[2]>> : d \in Range(r_repos[p[2]][p[1]].depends_on)
                                          \cap DOMAIN r_repos[p[2]]}
                 : p \in S}
    IN IF T = S THEN S ELSE ReachedFrom(T)

\* some name is reached from the requested packages of the run in two
\* repositories
ReachedInTwoRepositories ==
    \E p, q \in ReachedFrom(Pairs(r_pkgs)) : p[1] = q[1] /\ p[2] # q[2]

\* C29: when the requested packages reach the same name in two
\* repositories (A of r1 and B of r2 each depend on the C of their own
\* repository), the resolution fails with RepositoryConflict, in whatever
\* order the names were requested; and a resolution that succeeds never
\* returns two entries of the same name
C29_TwoRepositoriesConflict ==
    /\ (r_pc \in {"done", "failed"} /\ ReachedInTwoRepositories) =>
          /\ r_pc = "failed"
          /\ r_st.err = "RepositoryConflict"
          /\ resolve_pkgs_by_name_with_deps(r_names, r_repos) =
                [err |-> "RepositoryConflict", pkgs |-> <<>>]
          /\ \A i, j \in DOMAIN r_names :
                LET swapped == [r_names EXCEPT ![i] = r_names[j], ![j] = r_names[i]]
                IN resolve_pkgs_by_name_with_deps(swapped, r_repos).err =
                       "RepositoryConflict"
    /\ r_pc = "done" =>
          \A i, j \in DOMAIN Resolved :
              i # j => Resolved[i].manifest.name # Resolved[j].manifest.name

\* the request of B then A failed on C: B of r2 depends on the C of r2, and
\* A of r1 on the C of r1, which was found handled for r2
C29_Witness ==
    /\ r_pc = "failed"
    /\ r_st.err = "RepositoryConflict"
    /\ r_names = <<"B", "A">>
    /\ <<"C", "r1">> \in ReachedFrom(Pairs(r_pkgs))
    /\ <<"C", "r2">> \in ReachedFrom(Pairs(r_pkgs))
    /\ "C" \in DOMAIN r_st.handled

\* finalize was called at most once for each package of the call, and only
\* after its download and its extraction succeeded
FinalizedAfterDownload ==
    \A j \in DlJobs :
        /\ dl_finalized[j] <= 1
        /\ dl_finalized[j] = 1 => (j \in dl_jobs /\ dl_closure[j] = "returned")

\* the call succeeded: finalize was called once for each package
FinalizedOnceOnSuccess ==
    dl_call.pc \in {"returned", "released"} =>
        /\ dl_call.results = dl_jobs
        /\ \A j \in dl_jobs : dl_finalized[j] = 1

\* the call failed: it returns the error of a task that failed, the first
\* one that join_next handed over, and no result; every task was joined
FailedWithFirstError ==
    dl_call.pc = "failed" =>
        /\ dl_call.err \in dl_jobs
        /\ dl_call.results = {}
        /\ \A j \in dl_jobs : dl_task[j] = "joined"

\* C30: finalize is called at most once per package and only after the
\* package's download succeeded, exactly once per package when the call
\* succeeds; when a task fails, under every interleaving, the call returns
\* the error of the first task seen to fail and no result, every other
\* task was aborted and joined, and nothing started by a task of the call
\* is still running when the call returns
C30_DownloaderContract ==
    /\ FinalizedAfterDownload
    /\ FinalizedOnceOnSuccess
    /\ FailedWithFirstError
    /\ dl_call.pc = "failed" =>
          \A j \in dl_jobs : dl_closure[j] # "running"

\* C22: when an install, update or repair command that created its
\* temporary directory returns, the directory no longer exists, whichever
\* way the command ended (download or extraction failure, collision, copy
\* failure, success)
C22_TempDirRemoved ==
    (pc = "done" /\ prev.kind \in InstallKinds /\ prev.tmp_made) => ~tmp_dir

\* C31: in one command whose packages to install have different valid
\* names, no path under the temporary directory (download file, extraction
\* directory, staged binary) is created or written by two packages
C31_DisjointTempPaths ==
    \A x, y \in u_out.touched : x.path = y.path => x.by = y.by

\* the entries of the archive of the run that pattern i matches
EntriesMatching(i) ==
    {e \in DOMAIN u_in.archive : u_in.archive[e].path \in u_in.files[i]}

\* every pattern matches exactly one entry and no entry is matched by two
\* patterns
OneToOne ==
    /\ \A i \in DOMAIN u_in.files : Cardinality(EntriesMatching(i)) = 1
    /\ \A i, k \in DOMAIN u_in.files :
          i # k => EntriesMatching(i) \cap EntriesMatching(k) = {}

\* C32: extract_archive succeeds if and only if every pattern matches
\* exactly one entry and no entry is matched by two patterns; it then
\* returns one binary per pattern, the i-th being the content of the entry
\* that pattern i matches, staged under a name prefixed by i (from 0).
\* Otherwise it fails with PatternMatchedMultiple (then some pattern matches
\* two entries), EntryMatchedByMultiplePatterns (then some entry is matched
\* by two patterns) or PatternMatchedNothing (then every entry was scanned
\* and some pattern matches none)
C32_ExtractOneToOne ==
    u_pc = "returned" =>
        /\ u_out.err = "" <=> OneToOne
        /\ u_out.err = "" =>
              /\ Len(u_out.binaries) = Len(u_in.files)
              /\ \A i \in DOMAIN u_in.files :
                    /\ EntriesMatching(i) = {u_out.binaries[i].entry}
                    /\ u_out.binaries[i].content =
                          u_in.archive[u_out.binaries[i].entry].content
                    /\ u_out.binaries[i].staged[1] = i - 1
        /\ u_out.err \in {"", "PatternMatchedMultiple",
                          "EntryMatchedByMultiplePatterns",
                          "PatternMatchedNothing"}
        /\ u_out.err = "PatternMatchedMultiple" =>
              \E i \in DOMAIN u_in.files : Cardinality(EntriesMatching(i)) > 1
        /\ u_out.err = "EntryMatchedByMultiplePatterns" =>
              \E i, k \in DOMAIN u_in.files :
                  i # k /\ EntriesMatching(i) \cap EntriesMatching(k) # {}
        /\ u_out.err = "PatternMatchedNothing" =>
              /\ u_out.scanned = Len(u_in.archive)
              /\ \E i \in DOMAIN u_in.files : EntriesMatching(i) = {}
        /\ u_out.err # "" => u_out.binaries = <<>> /\ bin_dir = [f \in Files |-> NoFile]

\* an archive of three entries, of which the two patterns match one each,
\* was extracted: the second pattern got the first entry
C32_Witness ==
    /\ u_pc = "returned"
    /\ u_out.err = ""
    /\ Len(u_in.archive) = 3
    /\ Len(u_in.files) = 2
    /\ u_out.binaries[2].entry = 1
    /\ u_out.binaries[1].entry = 3

\* the positions of the release's assets whose name the pattern matches
GhMatching ==
    {k \in DOMAIN u_in.release.assets :
        u_in.release.assets[k].name \in u_in.asset_pattern}

\* C33: over the asset list of the latest release, fetch_infos fails with
\* NoMatchingAsset when no asset name matches the platform's pattern and
\* with AmbiguousAsset when more than one matches; otherwise it fails with
\* MissingReleaseTitle when ReleaseTitle is selected and the release has no
\* name, and else returns the browser_download_url of the only matching
\* asset with the tag_name (TagName) or the release name (ReleaseTitle) as
\* version
C33_GitHubFetchInfo ==
    u_pc = "fetched" =>
        LET kind == GhErrorKind(u_out.err)
            title == u_in.version = "ReleaseTitle"
         IN /\ u_out.err # "" => kind # ""
            /\ GhMatching = {} <=> kind = "NoMatchingAsset"
            /\ Cardinality(GhMatching) > 1 <=> kind = "AmbiguousAsset"
            /\ kind = "NoMatchingAsset" =>
                  Len(u_out.listed) = Len(u_in.release.assets)
            /\ Cardinality(GhMatching) = 1 =>
                  /\ kind = "MissingReleaseTitle"
                        <=> (title /\ u_in.release.name = GhNoTitle)
                  /\ u_out.err = "" =>
                        /\ \A k \in GhMatching :
                              u_out.url =
                                  u_in.release.assets[k].browser_download_url
                        /\ u_out.version = IF title THEN u_in.release.name
                                           ELSE u_in.release.tag_name

\* the release title was returned as the version, with the URL of the
\* second of three assets, the only one the pattern matches
C33_Witness ==
    /\ u_pc = "fetched"
    /\ u_out.err = ""
    /\ u_in.version = "ReleaseTitle"
    /\ u_out.version = "title"
    /\ Len(u_in.release.assets) = 3
    /\ GhMatching = {2}
    /\ u_out.url = "u2"
    /\ u_in.release.assets[1].browser_download_url = "u1"

\* C36: between commands, the repository recorded by every installed record
\* is registered (a key of db.repositories), so that resolve_installed_pkgs
\* succeeds on the installed packages
C36_InstalledRepoRegistered ==
    pc = "idle" =>
        /\ \A n \in DOMAIN db : db[n].repo_name \in DOMAIN repositories
        /\ resolve_installed_pkgs(db, Registered).err = ""

\* C34: between commands, the installed set is closed under dependencies:
\* every name in the depends_on of an installed record's manifest has an
\* installed record
C34_InstalledDepsClosed ==
    pc = "idle" =>
        \A n \in DOMAIN db :
            \A d \in Range(db[n].manifest.depends_on) : d \in DOMAIN db

\* C35: between commands, every file of the binaries directory is listed in
\* the binaries of some installed record
C35_NoUnownedFiles ==
    pc = "idle" =>
        \A f \in Files :
            IsFile(bin_dir, f) =>
                \E n \in DOMAIN db : f \in Range(db[n].binaries)

\* C37: when the classification of a planning step starts, every fetch task
\* has completed and was joined, none has failed, and the informations
\* paired with each package are the ones fetched from that package's
\* manifest, whatever the order the tasks completed in; when planning has
\* failed, no task is still running and no package was classified; and
\* once a fetch has failed, no package is classified
C37_FetchedBeforeClassified ==
    /\ u_pc = "classified" =>
          /\ \A i \in DOMAIN u_in : u_out.task[i] = "joined"
          /\ DOMAIN u_out.classified = DOMAIN u_in
          /\ \A i \in DOMAIN u_in :
                /\ u_out.classified[i].pkg = u_in[i]
                /\ u_out.classified[i].asset_info = FiInfos(u_in[i])
    /\ u_pc = "failed" =>
          /\ \A i \in DOMAIN u_in : u_out.task[i] = "joined"
          /\ u_out.classified = <<>>
          /\ u_out.err # <<>>
    /\ (u_pc \in {"joining", "draining", "classified", "failed"}
         /\ \E i \in DOMAIN u_in : u_out.task[i] = "err") =>
          u_out.classified = <<>>
    /\ (u_pc \in {"joining", "draining"}) => u_out.classified = <<>>

\* three packages were classified whose informations arrived in the
\* opposite order
C37_Witness ==
    /\ u_pc = "classified"
    /\ Len(u_in) = 3
    /\ [k \in 1..3 |-> u_out.results[k].pos] = <<3, 2, 1>>

\* the second fetch failed after the first was joined: planning failed
\* once the aborted third task was joined
C37_WitnessFailed ==
    /\ u_pc = "failed"
    /\ Len(u_in) = 3
    /\ Len(u_out.results) = 1
    /\ u_out.err[2] = u_in[2]

\* what is left to do in the loop of resolve_pkgs_with_deps: the queued
\* items, and for every name not handled yet the items it may still queue
ResolveVariant ==
    Len(r_st.queue)
        + (MaxDeps + 1) * Cardinality(ResolverNames \ DOMAIN r_st.handled)

\* an iteration of the loop
ResolveIterated == r_pc = "loop" /\ r_st' # r_st

\* C38: resolve_pkgs_with_deps terminates on every repository and request,
\* circular and self dependencies included: every iteration leaves less to
\* do, a handled name stays handled, an iteration queues dependencies only
\* for a name that was not handled before and is afterwards (so at most
\* once per name), and the call eventually returns or fails
C38_ResolveTerminates ==
    /\ [][ResolveIterated =>
             /\ ResolveVariant' < ResolveVariant
             /\ DOMAIN r_st.handled \subseteq DOMAIN r_st'.handled
             /\ r_st'.queue # Tail(r_st.queue) =>
                   /\ Head(r_st.queue).manifest.name \notin DOMAIN r_st.handled
                   /\ Head(r_st.queue).manifest.name \in DOMAIN r_st'.handled]_vars
    /\ <>(r_pc \in {"done", "failed"})

\* A was resolved in a repository where A depends on B, B on C and C on A;
\* and B, which depends on itself, in another
C38_Witness ==
    /\ r_pc = "done"
    /\ \/ /\ r_names = <<"A">>
          /\ r_repos["r1"]["A"].depends_on = <<"B">>
          /\ r_repos["r1"]["B"].depends_on = <<"C">>
          /\ r_repos["r1"]["C"].depends_on = <<"A">>
          /\ DOMAIN r_st.handled = {"A", "B", "C"}
       \/ /\ r_names = <<"B">>
          /\ r_repos["r1"]["B"].depends_on = <<"B">>
          /\ DOMAIN r_st.handled = {"B"}

\* the bytes of a response body, chunk after chunk
RECURSIVE DaConcat(_)
DaConcat(body) ==
    IF body = <<>> THEN <<>> ELSE Head(body) \o DaConcat(Tail(body))

\* C39: when download_asset has returned successfully, the temporary file
\* holds the chunks of the response body one after the other, complete
C39_FileIsBody ==
    u_pc = "returned" => u_out.file = DaConcat(u_in)

====
